---- MODULE Spec2Model ----
(***************************************************************************)
(* Model of the Google Chat MCP server: the tool catalog of the five       *)
(* categories, the two call-tool dispatchers (stdio server and stateless   *)
(* HTTP server), the category executors, the shared helpers of BaseTool    *)
(* and the authentication holder GoogleChatAuth.                           *)
(*                                                                         *)
(* Python values are modelled as follows.  An optional value (None or an   *)
(* absent dictionary key) is the empty sequence, a present value v is      *)
(* <<v>>.  A text is a sequence of fragments, so that f-strings are        *)
(* concatenations and "contains" is fragment membership.  An exception is  *)
(* a record of its class, its message and the status of its resp           *)
(* attribute when it has one.  A string whose characters the code looks   *)
(* at (a query, a message text, a user identifier, a timestamp, a          *)
(* signature header) is a sequence of one-character strings.               *)
(***************************************************************************)
EXTENDS Integers, Sequences, FiniteSets, TLC

\* ------------------------------------------------------------------ bounds
\* limit arguments range over -MaxUnder..1 and PageCap..PageCap+MaxOver, or are absent
MaxOver == 2
MaxUnder == 1
\* number of spaces the remote space listing returns, at most
MaxSpaces == 2
\* number of messages or memberships the spaces of one listing hold together, at most
MaxFeed == 2
\* tool invocations in flight at the same time
MaxTasks == 2

\* ------------------------------------------------------- program constants
PageCap == 100
DefaultLimit == 25
ActivityDefaultLimit == 50
ActivityPageCap == 50
SpaceScanSize == 50
SearchPageSize == 20
MemberScanSize == 50
MemberPageSize == 100

\* ------------------------------------------------------------ basic values
None == <<>>
Some(v) == <<v>>
IsSet(o) == o # <<>>
Val(o) == o[1]

\* Python truthiness of an optional string: None and "" are falsy
Truthy(o) == IsSet(o) /\ Val(o) # ""

Min(a, b) == IF a <= b THEN a ELSE b

\* the element of a one-element set; {F(x) : x \in {v}} names v once as x
One(S) == CHOOSE x \in S : TRUE

Contains(text, frag) == \E i \in 1..Len(text) : text[i] = frag

\* ------------------------------------------------------ character strings
Take(s, n) == IF n >= Len(s) THEN s ELSE SubSeq(s, 1, n)
Drop(s, n) == IF n >= Len(s) THEN <<>> ELSE SubSeq(s, n + 1, Len(s))

\* s[:n] of Python: a negative n counts from the end
Slice(s, n) == IF n >= 0 THEN Take(s, n) ELSE Take(s, Len(s) + n)

StartsWith(s, prefix) == Len(prefix) <= Len(s) /\ SubSeq(s, 1, Len(prefix)) = prefix

\* needle in hay
InStr(needle, hay) ==
    \E i \in 0..(Len(hay) - Len(needle)) : SubSeq(hay, i + 1, i + Len(needle)) = needle

LowerChar(c) ==
    CASE c = "A" -> "a" [] c = "B" -> "b" [] c = "C" -> "c" [] c = "D" -> "d"
      [] c = "E" -> "e" [] c = "H" -> "h" [] c = "L" -> "l" [] c = "O" -> "o"
      [] OTHER -> c
Lower(s) == [i \in 1..Len(s) |-> LowerChar(s[i])]

\* code points of the characters that occur in timestamps; any other character
\* is taken as a lower-case letter (code 120)
Ord(c) ==
    CASE c = "+" -> 43 [] c = "-" -> 45 [] c = "." -> 46
      [] c = "0" -> 48 [] c = "1" -> 49 [] c = "2" -> 50 [] c = "3" -> 51 [] c = "4" -> 52
      [] c = "5" -> 53 [] c = "6" -> 54 [] c = "7" -> 55 [] c = "8" -> 56 [] c = "9" -> 57
      [] c = ":" -> 58 [] c = "T" -> 84 [] c = "Z" -> 90
      [] OTHER -> 120

\* s < t in the order of Python strings: by code point, a proper prefix first
RECURSIVE StrLess(_, _)
StrLess(s, t) ==
    IF t = <<>> THEN FALSE
    ELSE IF s = <<>> THEN TRUE
    ELSE IF Ord(Head(s)) # Ord(Head(t)) THEN Ord(Head(s)) < Ord(Head(t))
    ELSE StrLess(Tail(s), Tail(t))

IsDigit(c) == Ord(c) >= 48 /\ Ord(c) <= 57
AllDigits(s) == s # <<>> /\ \A i \in 1..Len(s) : IsDigit(s[i])

\* int(s) of a string of decimal digits
RECURSIVE IntOf(_)
IntOf(s) == IF s = <<>> THEN 0 ELSE IntOf(Take(s, Len(s) - 1)) * 10 + (Ord(s[Len(s)]) - 48)

\* -------------------------------------------------------------- timestamps
\* create_time_str.replace('Z', '+00:00')
RECURSIVE ReplaceZ(_)
ReplaceZ(s) ==
    IF s = <<>> THEN <<>>
    ELSE IF Head(s) = "Z" THEN <<"+", "0", "0", ":", "0", "0">> \o ReplaceZ(Tail(s))
    ELSE <<Head(s)>> \o ReplaceZ(Tail(s))

MsPerHour == 3600000

\* datetime.fromisoformat on YYYY-MM-DDTHH:MM:SS[.fff][+HH:MM]: the instant in
\* milliseconds since 2024-01-01T00:00:00Z (the calendar of the model is
\* January 2024).  kind is "aware", "naive" (no offset) or "invalid" (ValueError).
FromIsoFormat(s) ==
    LET Num(i, j) == IntOf(SubSeq(s, i, j))
        Digits(i, j) == AllDigits(SubSeq(s, i, j))
        rest == Drop(s, 19)
        hasFrac == rest # <<>> /\ rest[1] = "."
        zone == IF hasFrac THEN Drop(rest, 4) ELSE rest
        Off(i, j) == IntOf(SubSeq(zone, i, j))
        layout ==
            /\ Len(s) >= 19
            /\ Digits(1, 4) /\ s[5] = "-" /\ Digits(6, 7) /\ s[8] = "-" /\ Digits(9, 10)
            /\ s[11] = "T"
            /\ Digits(12, 13) /\ s[14] = ":" /\ Digits(15, 16) /\ s[17] = ":" /\ Digits(18, 19)
            /\ Num(1, 4) = 2024 /\ Num(6, 7) = 1 /\ Num(9, 10) \in 1..31
            /\ Num(12, 13) < 24 /\ Num(15, 16) < 60 /\ Num(18, 19) < 60
            /\ hasFrac => (Len(rest) >= 4 /\ AllDigits(SubSeq(rest, 2, 4)))
            /\ zone # <<>> =>
                 /\ Len(zone) = 6 /\ zone[1] \in {"+", "-"} /\ zone[4] = ":"
                 /\ AllDigits(SubSeq(zone, 2, 3)) /\ AllDigits(SubSeq(zone, 5, 6))
                 /\ Off(2, 3) < 24 /\ Off(5, 6) < 60
        local == (((Num(9, 10) - 1) * 24 + Num(12, 13)) * 60 + Num(15, 16)) * 60 + Num(18, 19)
        ms == IF hasFrac THEN IntOf(SubSeq(rest, 2, 4)) ELSE 0
        offset == (Off(2, 3) * 60 + Off(5, 6)) * (IF zone[1] = "-" THEN 0 - 1 ELSE 1)
    IN IF ~layout THEN [kind |-> "invalid", instant |-> 0]
       ELSE IF zone = <<>> THEN [kind |-> "naive", instant |-> local * 1000 + ms]
       ELSE [kind |-> "aware", instant |-> (local - offset * 60) * 1000 + ms]

\* ------------------------------------------------------------- exceptions
NoExc == [cls |-> "", msg |-> <<>>, status |-> None]
Exc(cls, msg) == [cls |-> cls, msg |-> msg, status |-> None]
HttpError(status) ==
    [cls |-> "HttpError", msg |-> <<"HttpError ", "status ", ToString(status)>>, status |-> Some(status)]

\* classes deriving from Exception, which "except Exception" catches
ExceptionClasses ==
    {"ValueError", "RuntimeError", "KeyError", "AttributeError", "HttpError",
     "RefreshError", "OSError", "TypeError"}
\* mutant: the safety net catches API errors only
MutIsExceptionHttpOnly(e) == e.cls = "HttpError"

IsException(e) == e.cls \in ExceptionClasses

\* str(e): a KeyError prints the repr of its key, the others their message
StrOf(e) == IF e.cls = "KeyError" THEN <<"'">> \o e.msg \o <<"'">> ELSE e.msg

KeyError(key) == Exc("KeyError", <<key>>)

\* --------------------------------------------------------- result envelope
\* items is the list the tool returns (messages, activities, members); the
\* last four keys are those of validate_webhook_signature
Envelope == [success |-> None, error |-> None, status |-> None, type |-> None,
             space |-> None, items |-> None, count |-> None, existing |-> None,
             user |-> None, is_valid |-> None, is_recent |-> None,
             time_difference_seconds |-> None, signature_valid |-> None]
ErrorEnv(text) == [Envelope EXCEPT !.error = Some(text)]
SuccessEnv == [Envelope EXCEPT !.success = Some(TRUE)]

\* json.dumps of an envelope: the present keys in insertion order
JsonDumps(env) ==
    <<"{">>
    \o (IF IsSet(env.success) THEN <<"\"success\": ", ToString(Val(env.success))>> ELSE <<>>)
    \o (IF IsSet(env.error) THEN <<"\"error\": \"">> \o Val(env.error) \o <<"\"">> ELSE <<>>)
    \o (IF IsSet(env.status) THEN <<"\"status\": ", ToString(Val(env.status))>> ELSE <<>>)
    \o (IF IsSet(env.type) THEN <<"\"type\": \"", Val(env.type), "\"">> ELSE <<>>)
    \o (IF IsSet(env.space) THEN <<"\"space\": \"", Val(env.space), "\"">> ELSE <<>>)
    \o (IF IsSet(env.count) THEN <<"\"count\": ", ToString(Val(env.count))>> ELSE <<>>)
    \o (IF IsSet(env.existing) THEN <<"\"existing\": ", ToString(Val(env.existing))>> ELSE <<>>)
    \o (IF IsSet(env.is_valid) THEN <<"\"is_valid\": ", ToString(Val(env.is_valid))>> ELSE <<>>)
    \o (IF IsSet(env.is_recent) THEN <<"\"is_recent\": ", ToString(Val(env.is_recent))>> ELSE <<>>)
    \o (IF IsSet(env.signature_valid)
        THEN <<"\"signature_valid\": ", ToString(Val(env.signature_valid))>> ELSE <<>>)
    \o <<"}">>

\* ------------------------------------------------------------ tool catalog
Categories == <<"message", "space", "member", "search", "webhook">>

\* mutant: the member category forgets one declaration
MutGetToolsDropped(cat) ==
    CASE cat = "message" -> <<"send_message", "list_messages", "get_message",
                              "update_message", "delete_message">>
      [] cat = "space"   -> <<"list_spaces", "get_space", "create_space",
                              "update_space", "delete_space">>
      [] cat = "member"  -> <<"list_members", "get_member", "create_membership",
                              "update_membership", "delete_membership">>
      [] cat = "search"  -> <<"search_messages", "search_spaces", "search_members",
                              "get_recent_activity">>
      [] cat = "webhook" -> <<"send_webhook_message", "create_card_message",
                              "parse_webhook_event", "validate_webhook_signature",
                              "create_interactive_card">>

\* names of the Tool declarations returned by get_tools()
get_tools(cat) ==
    CASE cat = "message" -> <<"send_message", "list_messages", "get_message",
                              "update_message", "delete_message">>
      [] cat = "space"   -> <<"list_spaces", "get_space", "create_space",
                              "update_space", "delete_space">>
      [] cat = "member"  -> <<"list_members", "get_member", "create_membership",
                              "update_membership", "delete_membership",
                              "find_direct_message">>
      [] cat = "search"  -> <<"search_messages", "search_spaces", "search_members",
                              "get_recent_activity">>
      [] cat = "webhook" -> <<"send_webhook_message", "create_card_message",
                              "parse_webhook_event", "validate_webhook_signature",
                              "create_interactive_card">>

get_tool_names(cat) ==
    CASE cat = "message" -> <<"send_message", "list_messages", "get_message",
                              "update_message", "delete_message">>
      [] cat = "space"   -> <<"list_spaces", "get_space", "create_space",
                              "update_space", "delete_space">>
      [] cat = "member"  -> <<"list_members", "get_member", "create_membership",
                              "update_membership", "delete_membership",
                              "find_direct_message">>
      [] cat = "search"  -> <<"search_messages", "search_spaces", "search_members",
                              "get_recent_activity">>
      [] cat = "webhook" -> <<"send_webhook_message", "create_card_message",
                              "parse_webhook_event", "validate_webhook_signature",
                              "create_interactive_card">>

Range(s) == {s[i] : i \in 1..Len(s)}

\* -------------------------------------------------------------------- state
VARIABLES
    transport,   \* "stdio" (server.py) or "http" (stateless_streamable_server.py)
    cfg,         \* configuration read from the environment
    providers,   \* per category: the declared tools and the tool names
    phase,       \* "constructed", "serving" or "failed"
    auth,        \* the shared GoogleChatAuth: credentials, expired, service
    listed,      \* names of the tools last returned by the list-tools handler
    lastCall,    \* record of the last call-tool invocation
    mapped,      \* last application of the error mapper on a bare failure
    holderCall,  \* last call made on the authentication holder itself
    tasks,       \* tool invocations in flight on the shared holder
    resource,    \* result of the last resource handler
    http         \* the ASGI endpoint: session manager and last answer

vars == <<transport, cfg, providers, phase, auth, listed, lastCall, mapped, holderCall,
          tasks, resource, http>>

\* ---------------------------------------------------- authentication holder
\* GoogleChatAuth.__init__: the stateless server passes only the service
\* account path, so the OAuth fields stay None there
AuthConfig ==
    IF transport = "http"
    THEN [cfg EXCEPT !.client_id = FALSE, !.client_secret = FALSE, !.refresh_token = FALSE]
    ELSE cfg

NewAuth == [credentials |-> "none", expired |-> FALSE, service |-> FALSE]

\* outcomes of the environment during one invocation
\*   saLoad      from_service_account_file succeeds
\*   initRefresh credentials.refresh succeeds inside initialize()
\*   build       build('chat', 'v1') succeeds
\*   refresh     credentials.refresh succeeds inside ensure_authenticated()
\*   saAttr      reading refresh_token of service-account credentials yields a
\*               falsy value (TRUE) or raises AttributeError (FALSE)
\*   api         outcome of the chat API request (of the space listing, in a
\*               tool that loops over the spaces)
\*   api2        outcome of the second chat API request of a handler that
\*               issues two
\*   feed        the list an "ok" answer to the request on one space carries
\*   spaces      per listed space, the answer to the request on it
\*   now         the clock: milliseconds since 2024-01-01T00:00:00Z for
\*               datetime.now, seconds for time.time
ApiOutcomes == {"ok", "403", "404", "429", "500", "neterr"}
CalmEnv == [saLoad |-> TRUE, initRefresh |-> TRUE, build |-> TRUE, refresh |-> TRUE,
            saAttr |-> TRUE, api |-> "ok", api2 |-> "ok", feed |-> <<>>, spaces |-> <<>>,
            now |-> 0]

RefreshCall == [kind |-> "refresh", op |-> "token", parent |-> None, pageSize |-> None]
ApiRequest(op, parent, pageSize) ==
    [kind |-> "api", op |-> op, parent |-> parent, pageSize |-> pageSize]

BuildService(a, e, net) ==
    IF e.build
    THEN [auth |-> [a EXCEPT !.service = TRUE], exc |-> NoExc, net |-> net]
    ELSE [auth |-> a, exc |-> Exc("OSError", <<"build failed">>), net |-> net]

\* mutant: OAuth is tried without looking at the client secret
MutInitializePartialOAuth(a, e) ==
    LET c == AuthConfig IN
    IF c.service_account_path /\ c.file_exists
    THEN IF e.saLoad
         THEN BuildService([a EXCEPT !.credentials = "sa", !.expired = FALSE], e, <<>>)
         ELSE [auth |-> a, exc |-> Exc("ValueError", <<"malformed service account file">>),
               net |-> <<>>]
    ELSE IF c.client_id /\ c.refresh_token
    THEN LET a1 == [a EXCEPT !.credentials = "oauth", !.expired = FALSE] IN
         IF e.initRefresh
         THEN BuildService(a1, e, <<RefreshCall>>)
         ELSE [auth |-> a1, exc |-> Exc("RefreshError", <<"token refresh failed">>),
               net |-> <<RefreshCall>>]
    ELSE [auth |-> a,
          exc |-> Exc("ValueError", <<"No valid authentication method found. ",
                      "Please provide either service account JSON or OAuth2 credentials.">>),
          net |-> <<>>]

initialize(a, e) ==
    LET c == AuthConfig IN
    IF c.service_account_path /\ c.file_exists
    THEN IF e.saLoad
         THEN BuildService([a EXCEPT !.credentials = "sa", !.expired = FALSE], e, <<>>)
         ELSE [auth |-> a, exc |-> Exc("ValueError", <<"malformed service account file">>),
               net |-> <<>>]
    ELSE IF c.client_id /\ c.client_secret /\ c.refresh_token
    THEN LET a1 == [a EXCEPT !.credentials = "oauth", !.expired = FALSE] IN
         IF e.initRefresh
         THEN BuildService(a1, e, <<RefreshCall>>)
         ELSE [auth |-> a1, exc |-> Exc("RefreshError", <<"token refresh failed">>),
               net |-> <<RefreshCall>>]
    ELSE [auth |-> a,
          exc |-> Exc("ValueError", <<"No valid authentication method found. ",
                      "Please provide either service account JSON or OAuth2 credentials.">>),
          net |-> <<>>]

get_service(a) ==
    IF ~a.service
    THEN [raised |-> TRUE,
          exc |-> Exc("RuntimeError", <<"Authentication not initialized. Call initialize() first.">>)]
    ELSE [raised |-> FALSE, exc |-> NoExc]

\* the refresh_token attribute of the credentials: OAuth credentials carry
\* the configured token; service-account credentials have no such attribute
\* (a falsy value or an AttributeError, decided by e.saAttr)
\* mutant: OAuth credentials are refreshed on every call
MutEnsureAlwaysRefresh(a, e) ==
    IF a.credentials = "none"
    THEN initialize(a, e)
    ELSE IF a.credentials = "sa"
    THEN [auth |-> a, exc |-> NoExc, net |-> <<>>]
    ELSE IF e.refresh
    THEN [auth |-> [a EXCEPT !.expired = FALSE], exc |-> NoExc, net |-> <<RefreshCall>>]
    ELSE One({[r EXCEPT !.net = <<RefreshCall>> \o r.net] : r \in {initialize(a, e)}})

\* mutant: a successful refresh leaves the credentials expired
MutEnsureKeepsExpiry(a, e) ==
    IF a.credentials = "none"
    THEN initialize(a, e)
    ELSE IF ~a.expired
    THEN [auth |-> a, exc |-> NoExc, net |-> <<>>]
    ELSE IF a.credentials = "sa"
    THEN IF e.saAttr
         THEN [auth |-> a, exc |-> NoExc, net |-> <<>>]
         ELSE [auth |-> a, exc |-> Exc("AttributeError", <<"refresh_token">>), net |-> <<>>]
    ELSE IF e.refresh
    THEN [auth |-> a, exc |-> NoExc, net |-> <<RefreshCall>>]
    ELSE One({[r EXCEPT !.net = <<RefreshCall>> \o r.net] : r \in {initialize(a, e)}})

ensure_authenticated(a, e) ==
    IF a.credentials = "none"
    THEN initialize(a, e)
    ELSE IF ~a.expired
    THEN [auth |-> a, exc |-> NoExc, net |-> <<>>]
    ELSE IF a.credentials = "sa"
    THEN IF e.saAttr
         THEN [auth |-> a, exc |-> NoExc, net |-> <<>>]
         ELSE [auth |-> a, exc |-> Exc("AttributeError", <<"refresh_token">>), net |-> <<>>]
    ELSE IF e.refresh
    THEN [auth |-> [a EXCEPT !.expired = FALSE], exc |-> NoExc, net |-> <<RefreshCall>>]
    ELSE One({[r EXCEPT !.net = <<RefreshCall>> \o r.net] : r \in {initialize(a, e)}})

\* ----------------------------------------------------------------- BaseTool
\* default_space handed to each category by the server constructor
DefaultSpaceOf(cat) == IF cat = "message" THEN cfg.default_space ELSE None

_validate_space(space, default_space) ==
    IF Truthy(space) THEN [raised |-> FALSE, exc |-> NoExc, value |-> Val(space)]
    ELSE IF Truthy(default_space)
    THEN [raised |-> FALSE, exc |-> NoExc, value |-> Val(default_space)]
    ELSE [raised |-> TRUE, value |-> "",
          exc |-> Exc("ValueError", <<"No space specified and no default space configured">>)]

\* mutant: the rate-limit branch is missing
MutHandleApiErrorNo429(e, operation) ==
    IF IsSet(e.status) /\ Val(e.status) = 403
    THEN [ErrorEnv(<<"Permission denied. Check your authentication and API permissions.">>)
            EXCEPT !.status = e.status]
    ELSE IF IsSet(e.status) /\ Val(e.status) = 404
    THEN [ErrorEnv(<<"Resource not found. Check the space/message ID.">>)
            EXCEPT !.status = e.status]
    ELSE [ErrorEnv(<<"API error during ", operation, ": ">> \o StrOf(e))
            EXCEPT !.type = Some(e.cls)]

_handle_api_error(e, operation) ==
    IF IsSet(e.status) /\ Val(e.status) = 403
    THEN [ErrorEnv(<<"Permission denied. Check your authentication and API permissions.">>)
            EXCEPT !.status = e.status]
    ELSE IF IsSet(e.status) /\ Val(e.status) = 404
    THEN [ErrorEnv(<<"Resource not found. Check the space/message ID.">>)
            EXCEPT !.status = e.status]
    ELSE IF IsSet(e.status) /\ Val(e.status) = 429
    THEN [ErrorEnv(<<"Rate limit exceeded. Please try again later.">>)
            EXCEPT !.status = e.status]
    ELSE [ErrorEnv(<<"API error during ", operation, ": ">> \o StrOf(e))
            EXCEPT !.type = Some(e.cls)]

\* --------------------------------------------------------- argument bags
\* space, limit and hours are optional keys; key tells whether the keys the
\* tool reads with args["..."] are present, and the fields after it are their
\* values
NoArgs == [space |-> None, limit |-> None, hours |-> None, key |-> TRUE,
           query |-> <<>>, user |-> <<"a">>,
           request_body |-> <<>>, signature |-> <<>>, timestamp |-> <<"0">>,
           webhook_secret |-> <<>>]
Limit(args) == IF IsSet(args.limit) THEN Val(args.limit) ELSE DefaultLimit

\* ------------------------------------------------------ remote API outcomes
ApiFailure(outcome) ==
    IF outcome = "neterr" THEN Exc("OSError", <<"connection failed">>)
    ELSE IF outcome = "403" THEN HttpError(403)
    ELSE IF outcome = "404" THEN HttpError(404)
    ELSE IF outcome = "429" THEN HttpError(429)
    ELSE HttpError(500)

\* the two except clauses that close every tool function
Caught(exc, operation) ==
    IF exc.cls = "HttpError" THEN _handle_api_error(exc, operation)
    ELSE ErrorEnv(StrOf(exc))

Done(env, net) == [value |-> env, net |-> net]

\* GoogleChatAuth.test_connection: the two except clauses catch HttpError and Exception and
\* return False; an exception outside the Exception hierarchy is not caught
Probe == [kind |-> "api", op |-> "spaces.list", parent |-> None, pageSize |-> Some(1)]

\* mutant: only the except HttpError clause is there
MutTestConnectionHttpOnly(a, e) ==
    LET Outcome(au) ==
            LET svc == get_service(au.auth)
                asked == au.exc = NoExc /\ ~svc.raised
                exc == IF au.exc # NoExc THEN au.exc
                       ELSE IF svc.raised THEN svc.exc
                       ELSE IF e.api # "ok" THEN ApiFailure(e.api) ELSE NoExc
                net == au.net \o (IF asked THEN <<Probe>> ELSE <<>>) IN
            IF exc = NoExc
            THEN [auth |-> au.auth, raised |-> FALSE, result |-> Some(TRUE), exc |-> exc, net |-> net]
            ELSE IF exc.cls = "HttpError"
            THEN [auth |-> au.auth, raised |-> FALSE, result |-> Some(FALSE), exc |-> exc, net |-> net]
            ELSE [auth |-> au.auth, raised |-> TRUE, result |-> None, exc |-> exc, net |-> net]
    IN One({Outcome(au) : au \in {ensure_authenticated(a, e)}})

test_connection(a, e) ==
    LET Outcome(au) ==
            LET svc == get_service(au.auth)
                asked == au.exc = NoExc /\ ~svc.raised
                exc == IF au.exc # NoExc THEN au.exc
                       ELSE IF svc.raised THEN svc.exc
                       ELSE IF e.api # "ok" THEN ApiFailure(e.api) ELSE NoExc
                net == au.net \o (IF asked THEN <<Probe>> ELSE <<>>) IN
            IF exc = NoExc
            THEN [auth |-> au.auth, raised |-> FALSE, result |-> Some(TRUE), exc |-> exc, net |-> net]
            ELSE IF exc.cls = "HttpError" \/ IsException(exc)
            THEN [auth |-> au.auth, raised |-> FALSE, result |-> Some(FALSE), exc |-> exc, net |-> net]
            ELSE [auth |-> au.auth, raised |-> TRUE, result |-> None, exc |-> exc, net |-> net]
    IN One({Outcome(au) : au \in {ensure_authenticated(a, e)}})

\* mutant: a failed request is issued a second time before it is reported
MutEntityCallRetry(a, args, e, operation, key, op) ==
    LET req == ApiRequest(op, None, None) IN
    IF get_service(a).raised THEN Done(Caught(get_service(a).exc, operation), <<>>)
    ELSE IF ~args.key THEN Done(Caught(KeyError(key), operation), <<>>)
    ELSE IF e.api # "ok" THEN Done(Caught(ApiFailure(e.api), operation), <<req, req>>)
    ELSE Done(SuccessEnv, <<req>>)

\* a tool that reads args[key] and issues one request on the named entity
EntityCall(a, args, e, operation, key, op) ==
    LET req == ApiRequest(op, None, None) IN
    IF get_service(a).raised THEN Done(Caught(get_service(a).exc, operation), <<>>)
    ELSE IF ~args.key THEN Done(Caught(KeyError(key), operation), <<>>)
    ELSE IF e.api # "ok" THEN Done(Caught(ApiFailure(e.api), operation), <<req>>)
    ELSE Done(SuccessEnv, <<req>>)

\* ------------------------------------------------------------ MessageTools
send_message(a, args, e) ==
    LET sp == _validate_space(args.space, DefaultSpaceOf("message"))
        req == ApiRequest("spaces.messages.create", Some(sp.value), None) IN
    IF get_service(a).raised THEN Done(Caught(get_service(a).exc, "send_message"), <<>>)
    ELSE IF sp.raised THEN Done(Caught(sp.exc, "send_message"), <<>>)
    ELSE IF e.api # "ok" THEN Done(Caught(ApiFailure(e.api), "send_message"), <<req>>)
    ELSE Done([SuccessEnv EXCEPT !.space = Some(sp.value)], <<req>>)

\* mutant: the page size is the limit as given
MutListMessagesUncapped(a, args, e) ==
    LET sp == _validate_space(args.space, DefaultSpaceOf("message"))
        req == ApiRequest("spaces.messages.list", Some(sp.value), Some(Limit(args))) IN
    IF get_service(a).raised THEN Done(Caught(get_service(a).exc, "list_messages"), <<>>)
    ELSE IF sp.raised THEN Done(Caught(sp.exc, "list_messages"), <<>>)
    ELSE IF e.api # "ok" THEN Done(Caught(ApiFailure(e.api), "list_messages"), <<req>>)
    ELSE Done([SuccessEnv EXCEPT !.space = Some(sp.value)], <<req>>)

list_messages(a, args, e) ==
    LET sp == _validate_space(args.space, DefaultSpaceOf("message"))
        req == ApiRequest("spaces.messages.list", Some(sp.value),
                          Some(Min(Limit(args), PageCap))) IN
    IF get_service(a).raised THEN Done(Caught(get_service(a).exc, "list_messages"), <<>>)
    ELSE IF sp.raised THEN Done(Caught(sp.exc, "list_messages"), <<>>)
    ELSE IF e.api # "ok" THEN Done(Caught(ApiFailure(e.api), "list_messages"), <<req>>)
    ELSE Done([SuccessEnv EXCEPT !.space = Some(sp.value)], <<req>>)

get_message(a, args, e) ==
    EntityCall(a, args, e, "get_message", "message", "spaces.messages.get")
update_message(a, args, e) ==
    EntityCall(a, args, e, "update_message", "message", "spaces.messages.patch")
delete_message(a, args, e) ==
    EntityCall(a, args, e, "delete_message", "message", "spaces.messages.delete")

\* -------------------------------------------------------------- SpaceTools
list_spaces(a, args, e) ==
    LET req == ApiRequest("spaces.list", None, Some(Min(Limit(args), PageCap))) IN
    IF get_service(a).raised THEN Done(Caught(get_service(a).exc, "list_spaces"), <<>>)
    ELSE IF e.api # "ok" THEN Done(Caught(ApiFailure(e.api), "list_spaces"), <<req>>)
    ELSE Done(SuccessEnv, <<req>>)

\* the three tools below read args["space"]: an absent key is a KeyError
SpaceKeyCall(a, args, e, operation, op) ==
    LET req == ApiRequest(op, args.space, None) IN
    IF get_service(a).raised THEN Done(Caught(get_service(a).exc, operation), <<>>)
    ELSE IF ~IsSet(args.space) THEN Done(Caught(KeyError("space"), operation), <<>>)
    ELSE IF e.api # "ok" THEN Done(Caught(ApiFailure(e.api), operation), <<req>>)
    ELSE Done(SuccessEnv, <<req>>)

get_space(a, args, e) == SpaceKeyCall(a, args, e, "get_space", "spaces.get")
update_space(a, args, e) == SpaceKeyCall(a, args, e, "update_space", "spaces.patch")
delete_space(a, args, e) == SpaceKeyCall(a, args, e, "delete_space", "spaces.delete")
create_space(a, args, e) ==
    EntityCall(a, args, e, "create_space", "display_name", "spaces.create")

\* ------------------------------------------------------------- MemberTools
list_members(a, args, e) ==
    LET sp == _validate_space(args.space, DefaultSpaceOf("member"))
        req == ApiRequest("spaces.members.list", Some(sp.value),
                          Some(Min(Limit(args), PageCap))) IN
    IF get_service(a).raised THEN Done(Caught(get_service(a).exc, "list_members"), <<>>)
    ELSE IF sp.raised THEN Done(Caught(sp.exc, "list_members"), <<>>)
    ELSE IF e.api # "ok" THEN Done(Caught(ApiFailure(e.api), "list_members"), <<req>>)
    ELSE Done([SuccessEnv EXCEPT !.space = Some(sp.value)], <<req>>)

create_membership(a, args, e) ==
    LET sp == _validate_space(args.space, DefaultSpaceOf("member"))
        req == ApiRequest("spaces.members.create", Some(sp.value), None) IN
    IF get_service(a).raised THEN Done(Caught(get_service(a).exc, "create_membership"), <<>>)
    ELSE IF sp.raised THEN Done(Caught(sp.exc, "create_membership"), <<>>)
    ELSE IF ~args.key THEN Done(Caught(KeyError("user"), "create_membership"), <<>>)
    ELSE IF e.api # "ok" THEN Done(Caught(ApiFailure(e.api), "create_membership"), <<req>>)
    ELSE Done([SuccessEnv EXCEPT !.space = Some(sp.value)], <<req>>)

get_member(a, args, e) ==
    EntityCall(a, args, e, "get_member", "member", "spaces.members.get")
update_membership(a, args, e) ==
    EntityCall(a, args, e, "update_membership", "member", "spaces.members.patch")
delete_membership(a, args, e) ==
    EntityCall(a, args, e, "delete_membership", "member", "spaces.members.delete")

\* ------------------------------------------------- loops over several spaces
SpaceNames == <<"spaces/S1", "spaces/S2", "spaces/S3", "spaces/S4">>

\* what the remote side holds: a message with its text and createTime (an
\* absent key is the empty string, as msg.get(key, "") reads it), a
\* membership with the name and the display name of its member
Message(name, text, createTime) == [name |-> name, text |-> text, createTime |-> createTime]
Membership(name, displayName) == [name |-> name, displayName |-> displayName]

\* the answer to the request on one space: out is "ok", an HTTP status or
\* "neterr", feed the list an "ok" answer carries
Answer(out, feed) == [out |-> out, feed |-> feed]

\* an element of a gathered list, with the space it came from
Tagged(space, data) == [space |-> space, data |-> data]
TagAll(space, feed) == [k \in 1..Len(feed) |-> Tagged(space, feed[k])]

\* One request per listed space, in listing order.  With tolerant, the
\* request sits in a try whose except HttpError clause continues with the
\* next space.  With a target, the loop returns from the first space whose
\* feed holds a member of that name.  The result names the requests issued,
\* the exception that left the loop, the index of the space the loop
\* returned from (0 when none) and the elements gathered.
RECURSIVE ScanSpaces(_, _, _, _, _, _, _, _)
ScanSpaces(op, pageSize, outs, tolerant, target, i, net, items) ==
    IF i > Len(outs) THEN [net |-> net, exc |-> NoExc, hit |-> 0, items |-> items]
    ELSE LET net1 == Append(net, ApiRequest(op, Some(SpaceNames[i]), pageSize)) IN
         IF outs[i].out = "neterr"
         THEN [net |-> net1, exc |-> ApiFailure("neterr"), hit |-> 0, items |-> items]
         ELSE IF outs[i].out # "ok"
         THEN IF tolerant
              THEN ScanSpaces(op, pageSize, outs, tolerant, target, i + 1, net1, items)
              ELSE [net |-> net1, exc |-> ApiFailure(outs[i].out), hit |-> 0, items |-> items]
         ELSE IF IsSet(target) /\ \E k \in 1..Len(outs[i].feed) : outs[i].feed[k].name = Val(target)
         THEN [net |-> net1, exc |-> NoExc, hit |-> i, items |-> items]
         ELSE ScanSpaces(op, pageSize, outs, tolerant, target, i + 1, net1,
                         items \o TagAll(SpaceNames[i], outs[i].feed))

\* ---------------------------------------------------- direct-message lookup
UsersPrefix == <<"u", "s", "e", "r", "s", "/">>

\* "Format user identifier" of create_membership and find_direct_message
FormatUser(user) ==
    IF InStr(<<"@">>, user) THEN UsersPrefix \o user
    ELSE IF StartsWith(user, UsersPrefix) THEN user
    ELSE UsersPrefix \o user

\* mutant: the loop keeps the last matching space instead of returning from the first
MutFindLastMatch(a, args, e) ==
    LET user_id == FormatUser(args.user)
        listing == ApiRequest("spaces.list", None, None)
        scan == ScanSpaces("spaces.members.list", None, e.spaces, FALSE, None, 1, <<listing>>, <<>>)
        hits == {i \in 1..Len(e.spaces) :
                    \E k \in 1..Len(e.spaces[i].feed) : e.spaces[i].feed[k].name = user_id} IN
    IF get_service(a).raised
    THEN Done(Caught(get_service(a).exc, "find_direct_message"), <<>>)
    ELSE IF ~args.key THEN Done(Caught(KeyError("user"), "find_direct_message"), <<>>)
    ELSE IF e.api # "ok"
    THEN Done(Caught(ApiFailure(e.api), "find_direct_message"), <<listing>>)
    ELSE IF scan.exc # NoExc THEN Done(Caught(scan.exc, "find_direct_message"), scan.net)
    ELSE IF hits # {}
    THEN Done([SuccessEnv EXCEPT !.existing = Some(TRUE),
                                 !.space = Some(SpaceNames[CHOOSE i \in hits : \A j \in hits : j <= i])],
              scan.net)
    ELSE Done([Envelope EXCEPT !.success = Some(FALSE), !.user = Some(user_id)], scan.net)

find_direct_message(a, args, e) ==
    LET user_id == FormatUser(args.user)
        listing == ApiRequest("spaces.list", None, None)
        Found(scan) ==
            IF scan.exc # NoExc THEN Done(Caught(scan.exc, "find_direct_message"), scan.net)
            ELSE IF scan.hit > 0
            THEN Done([SuccessEnv EXCEPT !.space = Some(SpaceNames[scan.hit]),
                                         !.existing = Some(TRUE)], scan.net)
            ELSE Done([Envelope EXCEPT !.success = Some(FALSE), !.user = Some(user_id)], scan.net) IN
    IF get_service(a).raised
    THEN Done(Caught(get_service(a).exc, "find_direct_message"), <<>>)
    ELSE IF ~args.key THEN Done(Caught(KeyError("user"), "find_direct_message"), <<>>)
    ELSE IF e.api # "ok"
    THEN Done(Caught(ApiFailure(e.api), "find_direct_message"), <<listing>>)
    ELSE One({Found(scan) : scan \in {ScanSpaces("spaces.members.list", None, e.spaces, FALSE,
                                                 Some(user_id), 1, <<listing>>, <<>>)}})

\* ------------------------------------------------------------- SearchTools
\* [x for x in items if ...] with the test of search_messages (field "text":
\* the lowered query in the lowered text) or of search_members (the query,
\* lowered by the caller, in the lowered display name, name or domainId, the
\* last being absent from the memberships of the model)
RECURSIVE Matching(_, _, _)
Matching(items, query, field) ==
    IF items = <<>> THEN <<>>
    ELSE LET x == Head(items)
             hit == IF field = "text" THEN InStr(Lower(query), Lower(x.data.text))
                    ELSE \/ InStr(query, Lower(x.data.displayName))
                         \/ InStr(query, Lower(x.data.name))
                         \/ InStr(query, <<>>)
         IN (IF hit THEN <<x>> ELSE <<>>) \o Matching(Tail(items), query, field)

Listed(env, space, items) ==
    [env EXCEPT !.space = space, !.items = Some(items), !.count = Some(Len(items))]

\* mutant: the filter compares the text as it is, without lower()
MutSearchCaseSensitive(a, args, e) ==
    LET limit == Limit(args)
        single == ApiRequest("spaces.messages.list", args.space, Some(Min(limit, PageCap)))
        listing == ApiRequest("spaces.list", None, Some(SpaceScanSize))
        Keep(items) == SelectSeq(items, LAMBDA x : InStr(args.query, x.data.text))
        Gathered(scan) ==
            IF scan.exc # NoExc THEN Done(Caught(scan.exc, "search_messages"), scan.net)
            ELSE Done(Listed(SuccessEnv, args.space, Slice(Keep(scan.items), limit)), scan.net) IN
    IF get_service(a).raised THEN Done(Caught(get_service(a).exc, "search_messages"), <<>>)
    ELSE IF ~args.key THEN Done(Caught(KeyError("query"), "search_messages"), <<>>)
    ELSE IF Truthy(args.space)
    THEN IF e.api # "ok" THEN Done(Caught(ApiFailure(e.api), "search_messages"), <<single>>)
         ELSE Done(Listed(SuccessEnv, args.space,
                          Slice(Keep(TagAll(Val(args.space), e.feed)), limit)), <<single>>)
    ELSE IF e.api # "ok" THEN Done(Caught(ApiFailure(e.api), "search_messages"), <<listing>>)
    ELSE One({Gathered(scan) : scan \in {ScanSpaces("spaces.messages.list", Some(SearchPageSize),
                                                    e.spaces, TRUE, None, 1, <<listing>>, <<>>)}})

search_messages(a, args, e) ==
    LET limit == Limit(args)
        single == ApiRequest("spaces.messages.list", args.space, Some(Min(limit, PageCap)))
        listing == ApiRequest("spaces.list", None, Some(SpaceScanSize))
        Gathered(scan) ==
            IF scan.exc # NoExc THEN Done(Caught(scan.exc, "search_messages"), scan.net)
            ELSE Done(Listed(SuccessEnv, args.space,
                             Slice(Matching(scan.items, args.query, "text"), limit)), scan.net) IN
    IF get_service(a).raised THEN Done(Caught(get_service(a).exc, "search_messages"), <<>>)
    ELSE IF ~args.key THEN Done(Caught(KeyError("query"), "search_messages"), <<>>)
    ELSE IF Truthy(args.space)
    THEN IF e.api # "ok" THEN Done(Caught(ApiFailure(e.api), "search_messages"), <<single>>)
         ELSE Done(Listed(SuccessEnv, args.space,
                          Slice(Matching(TagAll(Val(args.space), e.feed), args.query, "text"),
                                limit)), <<single>>)
    ELSE IF e.api # "ok" THEN Done(Caught(ApiFailure(e.api), "search_messages"), <<listing>>)
    ELSE One({Gathered(scan) : scan \in {ScanSpaces("spaces.messages.list", Some(SearchPageSize),
                                                    e.spaces, TRUE, None, 1, <<listing>>, <<>>)}})

search_spaces(a, args, e) ==
    LET req == ApiRequest("spaces.list", None, Some(PageCap)) IN
    IF get_service(a).raised THEN Done(Caught(get_service(a).exc, "search_spaces"), <<>>)
    ELSE IF ~args.key THEN Done(Caught(KeyError("query"), "search_spaces"), <<>>)
    ELSE IF e.api # "ok" THEN Done(Caught(ApiFailure(e.api), "search_spaces"), <<req>>)
    ELSE Done(SuccessEnv, <<req>>)

\* the filter loop appends a match and then breaks once limit matches are
\* held, so it keeps one match even for a limit below 1
search_members(a, args, e) ==
    LET limit == Limit(args)
        single == ApiRequest("spaces.members.list", args.space, Some(MemberPageSize))
        listing == ApiRequest("spaces.list", None, Some(SpaceScanSize))
        Keep(items) == Take(Matching(items, Lower(args.query), "member"),
                            IF limit < 1 THEN 1 ELSE limit)
        Gathered(scan) ==
            IF scan.exc # NoExc THEN Done(Caught(scan.exc, "search_members"), scan.net)
            ELSE Done(Listed(SuccessEnv, args.space, Keep(scan.items)), scan.net) IN
    IF get_service(a).raised THEN Done(Caught(get_service(a).exc, "search_members"), <<>>)
    ELSE IF ~args.key THEN Done(Caught(KeyError("query"), "search_members"), <<>>)
    ELSE IF Truthy(args.space)
    THEN IF e.api # "ok" THEN Done(Caught(ApiFailure(e.api), "search_members"), <<single>>)
         ELSE Done(Listed(SuccessEnv, args.space, Keep(TagAll(Val(args.space), e.feed))),
                   <<single>>)
    ELSE IF e.api # "ok" THEN Done(Caught(ApiFailure(e.api), "search_members"), <<listing>>)
    ELSE One({Gathered(scan) : scan \in {ScanSpaces("spaces.members.list", Some(MemberScanSize),
                                                    e.spaces, TRUE, None, 1, <<listing>>, <<>>)}})

\* an entry of the activities list
Activity(space, msg) ==
    [type |-> "MESSAGE", timestamp |-> msg.createTime, space |-> space, data |-> msg]

NaiveCompare == Exc("TypeError", <<"can't compare offset-naive and offset-aware datetimes">>)

\* mutant: a message is kept only when it is later than the threshold
RECURSIVE MutKeepRecentStrict(_, _, _, _)
MutKeepRecentStrict(messages, space, time_threshold, activities) ==
    IF messages = <<>> THEN [activities |-> activities, exc |-> NoExc]
    ELSE LET msg == Head(messages)
             Decide(create_time) ==
                 IF create_time.kind = "invalid"
                 THEN MutKeepRecentStrict(Tail(messages), space, time_threshold, activities)
                 ELSE IF create_time.kind = "naive"
                 THEN [activities |-> activities, exc |-> NaiveCompare]
                 ELSE IF create_time.instant > time_threshold
                 THEN MutKeepRecentStrict(Tail(messages), space, time_threshold,
                                          Append(activities, Activity(space, msg)))
                 ELSE MutKeepRecentStrict(Tail(messages), space, time_threshold, activities)
         IN IF msg.createTime = <<>>
            THEN MutKeepRecentStrict(Tail(messages), space, time_threshold, activities)
            ELSE One({Decide(t) : t \in {FromIsoFormat(ReplaceZ(msg.createTime))}})

\* the loop over the messages of one space: a message without createTime or
\* with one that does not parse is skipped; one at or after the threshold is
\* appended; comparing a timestamp without offset raises TypeError
RECURSIVE KeepRecent(_, _, _, _)
KeepRecent(messages, space, time_threshold, activities) ==
    IF messages = <<>> THEN [activities |-> activities, exc |-> NoExc]
    ELSE LET msg == Head(messages)
             Decide(create_time) ==
                 IF create_time.kind = "invalid"
                 THEN KeepRecent(Tail(messages), space, time_threshold, activities)
                 ELSE IF create_time.kind = "naive"
                 THEN [activities |-> activities, exc |-> NaiveCompare]
                 ELSE IF create_time.instant >= time_threshold
                 THEN KeepRecent(Tail(messages), space, time_threshold,
                                 Append(activities, Activity(space, msg)))
                 ELSE KeepRecent(Tail(messages), space, time_threshold, activities)
         IN IF msg.createTime = <<>>
            THEN KeepRecent(Tail(messages), space, time_threshold, activities)
            ELSE One({Decide(t) : t \in {FromIsoFormat(ReplaceZ(msg.createTime))}})

\* the loop over the spaces: one request each; an HttpError skips the space,
\* any other exception leaves the loop
RECURSIVE ActivityLoop(_, _, _, _, _, _, _)
ActivityLoop(spaces, outs, page, time_threshold, i, net, activities) ==
    IF i > Len(spaces) THEN [net |-> net, exc |-> NoExc, activities |-> activities]
    ELSE LET net1 == Append(net, ApiRequest("spaces.messages.list", Some(spaces[i]), page))
             Go(kept) ==
                 IF kept.exc # NoExc
                 THEN [net |-> net1, exc |-> kept.exc, activities |-> kept.activities]
                 ELSE ActivityLoop(spaces, outs, page, time_threshold, i + 1, net1, kept.activities)
         IN IF outs[i].out = "neterr"
            THEN [net |-> net1, exc |-> ApiFailure("neterr"), activities |-> activities]
            ELSE IF outs[i].out # "ok"
            THEN ActivityLoop(spaces, outs, page, time_threshold, i + 1, net1, activities)
            ELSE One({Go(kept) : kept \in {KeepRecent(outs[i].feed, spaces[i], time_threshold,
                                                      activities)}})

\* list.sort(key=timestamp, reverse=True): the timestamps are compared as
\* strings; the sort is stable, entries with equal keys keep their order
RECURSIVE InsertByTimestamp(_, _)
InsertByTimestamp(sorted, x) ==
    IF sorted = <<>> THEN <<x>>
    ELSE IF StrLess(Head(sorted).timestamp, x.timestamp) THEN <<x>> \o sorted
    ELSE <<Head(sorted)>> \o InsertByTimestamp(Tail(sorted), x)

RECURSIVE SortByTimestamp(_, _)
SortByTimestamp(activities, sorted) ==
    IF activities = <<>> THEN sorted
    ELSE SortByTimestamp(Tail(activities), InsertByTimestamp(sorted, Head(activities)))

\* with a space argument the loop runs over that one space, e.api and e.feed
\* being the answer to its request
get_recent_activity(a, args, e) ==
    LET hours == IF IsSet(args.hours) THEN Val(args.hours) ELSE 24
        limit == IF IsSet(args.limit) THEN Val(args.limit) ELSE ActivityDefaultLimit
        time_threshold == e.now - hours * MsPerHour
        page == Some(Min(limit, ActivityPageCap))
        listing == ApiRequest("spaces.list", None, Some(SpaceScanSize))
        Gathered(loop) ==
            IF loop.exc # NoExc THEN Done(Caught(loop.exc, "get_recent_activity"), loop.net)
            ELSE Done(Listed(SuccessEnv, args.space,
                             Slice(SortByTimestamp(loop.activities, <<>>), limit)), loop.net) IN
    IF get_service(a).raised
    THEN Done(Caught(get_service(a).exc, "get_recent_activity"), <<>>)
    ELSE IF Truthy(args.space)
    THEN One({Gathered(loop) : loop \in {ActivityLoop(<<Val(args.space)>>, <<Answer(e.api, e.feed)>>,
                                                      page, time_threshold, 1, <<>>, <<>>)}})
    ELSE IF e.api # "ok"
    THEN Done(Caught(ApiFailure(e.api), "get_recent_activity"), <<listing>>)
    ELSE One({Gathered(loop) : loop \in {ActivityLoop(SubSeq(SpaceNames, 1, Len(e.spaces)), e.spaces,
                                                      page, time_threshold, 1, <<listing>>, <<>>)}})

\* ------------------------------------------------------------ WebhookTools
\* the webhook tools use neither the authentication holder nor the chat API;
\* send_webhook_message posts to the webhook URL, e.api being the outcome
WebhookPost == [kind |-> "webhook", op |-> "post", parent |-> None, pageSize |-> None]

send_webhook_message(args, e) ==
    IF ~args.key THEN Done(ErrorEnv(StrOf(KeyError("webhook_url"))), <<>>)
    ELSE IF e.api = "neterr" THEN Done(ErrorEnv(StrOf(ApiFailure("neterr"))), <<WebhookPost>>)
    ELSE IF e.api # "ok"
    THEN Done(ErrorEnv(<<"Webhook request failed: ", e.api>>), <<WebhookPost>>)
    ELSE Done(SuccessEnv, <<WebhookPost>>)

LocalTool(args, key) ==
    IF ~args.key THEN Done(ErrorEnv(StrOf(KeyError(key))), <<>>)
    ELSE Done(SuccessEnv, <<>>)

create_card_message(args) == LocalTool(args, "title")
parse_webhook_event(args) == LocalTool(args, "event_data")

\* hmac.new(key, msg, sha256).digest(), kept symbolic: a string that names the
\* key and the message, so that two digests are equal exactly when keys and
\* messages are (no '#' occurs in the keys and messages of the model)
HmacSha256(key, msg) == <<"#">> \o key \o <<"#">> \o msg

\* base64 of the 32 bytes of a digest: one '=' of padding ends it
B64Encode(digest) == digest \o <<"=">>

\* s.split(sep): the pieces between the separators
RECURSIVE Split(_, _, _, _)
Split(s, sep, piece, pieces) ==
    IF s = <<>> THEN Append(pieces, piece)
    ELSE IF Head(s) = sep THEN Split(Tail(s), sep, <<>>, Append(pieces, piece))
    ELSE Split(Tail(s), sep, Append(piece, Head(s)), pieces)

\* part.split("=", 1)
KeyOf(part) == SubSeq(part, 1, (CHOOSE i \in 1..Len(part) : part[i] = "=" /\ \A j \in 1..(i - 1) : part[j] # "=") - 1)
ValueOf(part) == Drop(part, Len(KeyOf(part)) + 1)

\* mutant: the value of the last key=value part is taken, whatever its key
MutProvidedAnyKey(signature) ==
    LET parts == Split(signature, ",", <<>>, <<>>)
        keyed == {i \in 1..Len(parts) : InStr(<<"=">>, parts[i])} IN
    IF keyed = {} THEN <<>>
    ELSE ValueOf(parts[CHOOSE i \in keyed : \A j \in keyed : j <= i])

\* signature_parts.get("v1", "") after the loop that fills the dictionary
\* from the parts holding '=': a later part replaces an earlier one of its key
provided_signature(signature) ==
    LET parts == Split(signature, ",", <<>>, <<>>)
        keyed == {i \in 1..Len(parts) : InStr(<<"=">>, parts[i]) /\ KeyOf(parts[i]) = <<"v", "1">>} IN
    IF keyed = {} THEN <<>>
    ELSE ValueOf(parts[CHOOSE i \in keyed : \A j \in keyed : j <= i])

ReplayTolerance == 300

\* mutant: a request exactly five minutes old is no longer recent
MutRecentStrict(time_diff) == time_diff < ReplayTolerance

is_recent(time_diff) == time_diff <= ReplayTolerance

\* int(timestamp) raises ValueError unless the string is a decimal number
\* (the timestamps of the model are digit strings or words); e.now is
\* int(time.time())
validate_webhook_signature(args, e) ==
    LET string_to_sign == args.timestamp \o <<".">> \o args.request_body
        expected_signature_b64 == B64Encode(HmacSha256(args.webhook_secret, string_to_sign))
        is_valid == expected_signature_b64 = provided_signature(args.signature)
        request_time == IntOf(args.timestamp)
        time_diff == IF e.now >= request_time THEN e.now - request_time
                     ELSE request_time - e.now IN
    IF ~args.key THEN Done(ErrorEnv(StrOf(KeyError("request_body"))), <<>>)
    ELSE IF ~AllDigits(args.timestamp)
    THEN Done(ErrorEnv(<<"invalid literal for int() with base 10: ">> \o args.timestamp), <<>>)
    ELSE Done([SuccessEnv EXCEPT !.is_valid = Some(is_valid),
                                 !.is_recent = Some(is_recent(time_diff)),
                                 !.time_difference_seconds = Some(time_diff),
                                 !.signature_valid = Some(is_valid /\ is_recent(time_diff))], <<>>)
create_interactive_card(args) == LocalTool(args, "title")

\* ---------------------------------------------------------------- executors
Raise(a, exc, net) == [auth |-> a, raised |-> TRUE, exc |-> exc, value |-> Envelope, net |-> net]
Return(a, t, net) == [auth |-> a, raised |-> FALSE, exc |-> NoExc, value |-> t.value,
                      net |-> net \o t.net]

MessageTools_execute(a, tool_name, args, e) ==
    LET Branch(au) ==
        IF au.exc # NoExc THEN Raise(au.auth, au.exc, au.net)
        ELSE IF tool_name = "send_message" THEN Return(au.auth, send_message(au.auth, args, e), au.net)
        ELSE IF tool_name = "list_messages" THEN Return(au.auth, list_messages(au.auth, args, e), au.net)
        ELSE IF tool_name = "get_message" THEN Return(au.auth, get_message(au.auth, args, e), au.net)
        ELSE IF tool_name = "update_message" THEN Return(au.auth, update_message(au.auth, args, e), au.net)
        ELSE IF tool_name = "delete_message" THEN Return(au.auth, delete_message(au.auth, args, e), au.net)
        ELSE Raise(au.auth, Exc("ValueError", <<"Unknown message tool: ", tool_name>>), au.net)
    IN One({Branch(au) : au \in {ensure_authenticated(a, e)}})

SpaceTools_execute(a, tool_name, args, e) ==
    LET Branch(au) ==
        IF au.exc # NoExc THEN Raise(au.auth, au.exc, au.net)
        ELSE IF tool_name = "list_spaces" THEN Return(au.auth, list_spaces(au.auth, args, e), au.net)
        ELSE IF tool_name = "get_space" THEN Return(au.auth, get_space(au.auth, args, e), au.net)
        ELSE IF tool_name = "create_space" THEN Return(au.auth, create_space(au.auth, args, e), au.net)
        ELSE IF tool_name = "update_space" THEN Return(au.auth, update_space(au.auth, args, e), au.net)
        ELSE IF tool_name = "delete_space" THEN Return(au.auth, delete_space(au.auth, args, e), au.net)
        ELSE Raise(au.auth, Exc("ValueError", <<"Unknown space tool: ", tool_name>>), au.net)
    IN One({Branch(au) : au \in {ensure_authenticated(a, e)}})

MemberTools_execute(a, tool_name, args, e) ==
    LET Branch(au) ==
        IF au.exc # NoExc THEN Raise(au.auth, au.exc, au.net)
        ELSE IF tool_name = "list_members" THEN Return(au.auth, list_members(au.auth, args, e), au.net)
        ELSE IF tool_name = "get_member" THEN Return(au.auth, get_member(au.auth, args, e), au.net)
        ELSE IF tool_name = "create_membership"
        THEN Return(au.auth, create_membership(au.auth, args, e), au.net)
        ELSE IF tool_name = "update_membership"
        THEN Return(au.auth, update_membership(au.auth, args, e), au.net)
        ELSE IF tool_name = "delete_membership"
        THEN Return(au.auth, delete_membership(au.auth, args, e), au.net)
        ELSE IF tool_name = "find_direct_message"
        THEN Return(au.auth, find_direct_message(au.auth, args, e), au.net)
        ELSE Raise(au.auth, Exc("ValueError", <<"Unknown member tool: ", tool_name>>), au.net)
    IN One({Branch(au) : au \in {ensure_authenticated(a, e)}})

SearchTools_execute(a, tool_name, args, e) ==
    LET Branch(au) ==
        IF au.exc # NoExc THEN Raise(au.auth, au.exc, au.net)
        ELSE IF tool_name = "search_messages"
        THEN Return(au.auth, search_messages(au.auth, args, e), au.net)
        ELSE IF tool_name = "search_spaces" THEN Return(au.auth, search_spaces(au.auth, args, e), au.net)
        ELSE IF tool_name = "search_members" THEN Return(au.auth, search_members(au.auth, args, e), au.net)
        ELSE IF tool_name = "get_recent_activity"
        THEN Return(au.auth, get_recent_activity(au.auth, args, e), au.net)
        ELSE Raise(au.auth, Exc("ValueError", <<"Unknown search tool: ", tool_name>>), au.net)
    IN One({Branch(au) : au \in {ensure_authenticated(a, e)}})

\* mutant: the branch of create_interactive_card is missing
MutWebhookExecuteNoInteractive(a, tool_name, args, e) ==
    IF tool_name = "send_webhook_message" THEN Return(a, send_webhook_message(args, e), <<>>)
    ELSE IF tool_name = "create_card_message" THEN Return(a, create_card_message(args), <<>>)
    ELSE IF tool_name = "parse_webhook_event" THEN Return(a, parse_webhook_event(args), <<>>)
    ELSE IF tool_name = "validate_webhook_signature"
    THEN Return(a, validate_webhook_signature(args, e), <<>>)
    ELSE Raise(a, Exc("ValueError", <<"Unknown webhook tool: ", tool_name>>), <<>>)

WebhookTools_execute(a, tool_name, args, e) ==
    IF tool_name = "send_webhook_message" THEN Return(a, send_webhook_message(args, e), <<>>)
    ELSE IF tool_name = "create_card_message" THEN Return(a, create_card_message(args), <<>>)
    ELSE IF tool_name = "parse_webhook_event" THEN Return(a, parse_webhook_event(args), <<>>)
    ELSE IF tool_name = "validate_webhook_signature"
    THEN Return(a, validate_webhook_signature(args, e), <<>>)
    ELSE IF tool_name = "create_interactive_card"
    THEN Return(a, create_interactive_card(args), <<>>)
    ELSE Raise(a, Exc("ValueError", <<"Unknown webhook tool: ", tool_name>>), <<>>)

execute(cat, a, tool_name, args, e) ==
    CASE cat = "message" -> MessageTools_execute(a, tool_name, args, e)
      [] cat = "space"   -> SpaceTools_execute(a, tool_name, args, e)
      [] cat = "member"  -> MemberTools_execute(a, tool_name, args, e)
      [] cat = "search"  -> SearchTools_execute(a, tool_name, args, e)
      [] cat = "webhook" -> WebhookTools_execute(a, tool_name, args, e)

\* -------------------------------------------------------------- dispatchers
TextContent(text) == [type |-> "text", text |-> text]

\* mutant: the chain ends in the webhook category instead of an else branch
MutRouteLast(tool_name) ==
    LET owners == {i \in 1..Len(Categories) : tool_name \in Range(providers[Categories[i]].names)} IN
    IF owners = {} THEN Len(Categories) ELSE CHOOSE i \in owners : \A j \in owners : i <= j

\* the if/elif chain over the categories: index of the first category whose
\* get_tool_names() holds the name, 0 when the chain reaches its else branch
Route(tool_name) ==
    LET owners == {i \in 1..Len(Categories) : tool_name \in Range(providers[Categories[i]].names)} IN
    IF owners = {} THEN 0 ELSE CHOOSE i \in owners : \A j \in owners : i <= j

Handled(a, blocks, r, cat) ==
    [auth |-> a, blocks |-> blocks, escaped |-> FALSE, executor |-> cat,
     execRaised |-> r.raised, exc |-> r.exc, value |-> r.value, net |-> r.net]
Escaped(a, r, cat) ==
    [auth |-> a, blocks |-> <<>>, escaped |-> TRUE, executor |-> cat,
     execRaised |-> r.raised, exc |-> r.exc, value |-> r.value, net |-> r.net]

NotRun(a, exc) == Raise(a, exc, <<>>)

\* server.py: the unknown name raises inside the try and is caught with the rest
handle_call_tool(a, tool_name, args, e) ==
    LET unknown == Exc("ValueError", <<"Unknown tool", ": ", tool_name>>)
        Convert(r, cat) ==
            IF r.raised
            THEN IF IsException(r.exc)
                 THEN Handled(r.auth, <<TextContent(<<"Error: ">> \o StrOf(r.exc))>>, r, cat)
                 ELSE Escaped(r.auth, r, cat)
            ELSE Handled(r.auth, <<TextContent(JsonDumps(r.value))>>, r, cat)
        Dispatch(i) ==
            IF i = 0 THEN Convert(NotRun(a, unknown), None)
            ELSE One({Convert(r, Some(Categories[i])) :
                        r \in {execute(Categories[i], a, tool_name, args, e)}})
    IN One({Dispatch(i) : i \in {Route(tool_name)}})

\* stateless_streamable_server.py: the unknown name returns its own block
call_tool(a, tool_name, args, e) ==
    LET none == [NotRun(a, NoExc) EXCEPT !.raised = FALSE]
        Convert(r, cat) ==
            IF r.raised
            THEN IF IsException(r.exc)
                 THEN Handled(r.auth, <<TextContent(<<"Error executing tool ", tool_name, ": ">>
                                                     \o StrOf(r.exc))>>, r, cat)
                 ELSE Escaped(r.auth, r, cat)
            ELSE Handled(r.auth, <<TextContent(JsonDumps(r.value))>>, r, cat)
        Dispatch(i) ==
            IF i = 0
            THEN Handled(a, <<TextContent(<<"Unknown tool", ": ", tool_name>>)>>, none, None)
            ELSE One({Convert(r, Some(Categories[i])) :
                        r \in {execute(Categories[i], a, tool_name, args, e)}})
    IN One({Dispatch(i) : i \in {Route(tool_name)}})

\* tools.extend(...) over the five categories, in order
RECURSIVE Extend(_, _)
Extend(tools, i) ==
    IF i > Len(Categories) THEN tools
    ELSE Extend(tools \o providers[Categories[i]].tools, i + 1)

\* mutant: the category of a call that has just failed is left out
MutListToolsAfterFailure ==
    IF IsSet(lastCall.value.error) THEN Extend(<<>>, 2) ELSE Extend(<<>>, 1)

handle_list_tools == Extend(<<>>, 1)
\* the stateless server answers with an empty list until initialize_tools()
\* has created the categories
list_tools == IF phase # "serving" THEN <<>> ELSE Extend(<<>>, 1)

\* ------------------------------------------------------------ ASGI endpoint
\* app_lifespan: session_manager_container["manager"] is assigned after
\* initialize_tools() has returned; r is the outcome of initialize_tools(),
\* whose exception leaves the lifespan before the assignment
\* mutant: the session manager is stored before initialize_tools() is awaited
MutManagerBeforeTools(r) == TRUE

session_manager(r) == r.exc = NoExc

\* mcp_endpoint: 503 while the container holds None, otherwise the request
\* goes to handle_request of the session manager, which answers it
mcp_endpoint(manager) ==
    IF ~manager
    THEN [status |-> 503, body |-> <<"Service not ready">>, handed |-> FALSE]
    ELSE [status |-> 0, body |-> <<>>, handed |-> TRUE]

\* ---------------------------------------------------------------- resources
\* a tool function called with the positional arguments argv: each tool
\* function has one required parameter, the argument dictionary
Bind(function, argv) ==
    IF Len(argv) = 1 THEN [raised |-> FALSE, exc |-> NoExc, args |-> argv[1]]
    ELSE [raised |-> TRUE, args |-> NoArgs,
          exc |-> Exc("TypeError", <<function, "() missing 1 required positional argument: ",
                                     "'args'">>)]

GchatPrefix == "gchat://space/"
Resource(name) ==
    [uri |-> <<GchatPrefix, name>>, name |-> name, mimeType |-> "application/vnd.google.chat.space"]

\* server.py: the listing is called without an argument dictionary, inside
\* the try whose except clause logs the exception and keeps resources empty;
\* the spaces an "ok" listing reports are the first Len(e.spaces) names
handle_list_resources(a, e) ==
    LET call == Bind("list_spaces", <<>>)
        Describe(listing) ==
            LET spaces == IF IsSet(listing.value.success)
                          THEN SubSeq(SpaceNames, 1, Len(e.spaces)) ELSE <<>> IN
            [resources |-> [i \in 1..Len(spaces) |-> Resource(spaces[i])], net |-> listing.net]
    IN IF call.raised THEN [resources |-> <<>>, net |-> <<>>]
       ELSE One({Describe(listing) : listing \in {list_spaces(a, call.args, e)}})

\* server.py: a URI is the scheme prefix followed by the space name; the two
\* tool functions are called directly and return their envelopes
handle_read_resource(a, uri, e) ==
    IF uri[1] # GchatPrefix
    THEN [combined |-> FALSE, space |-> Envelope, messages |-> Envelope, net |-> <<>>,
          text |-> <<"Unknown resource type: ">> \o uri]
    ELSE LET space_name == uri[2]
             space == get_space(a, [NoArgs EXCEPT !.space = Some(space_name)], e)
             messages == list_messages(a, [NoArgs EXCEPT !.space = Some(space_name),
                                                         !.limit = Some(10)],
                                       [e EXCEPT !.api = e.api2])
         IN [combined |-> TRUE, space |-> space.value, messages |-> messages.value,
             net |-> space.net \o messages.net,
             text |-> <<"{\"space\": ">> \o JsonDumps(space.value)
                      \o <<", \"recent_messages\": ">> \o JsonDumps(messages.value)
                      \o <<"}">>]

\* -------------------------------------------------------------------- inputs
Configs ==
    {[service_account_path |-> sa, file_exists |-> sa, client_id |-> id,
      client_secret |-> id, refresh_token |-> tok, default_space |-> d] :
        sa \in BOOLEAN, id \in BOOLEAN, tok \in BOOLEAN,
        d \in {None, Some("spaces/DEF")}}

ShippedProviders ==
    [c \in Range(Categories) |-> [tools |-> get_tools(c), names |-> get_tool_names(c)]]

UnknownNames == {"nonexistent_tool", "send_mesage"}
ToolNames == UNION {Range(get_tool_names(c)) : c \in Range(Categories)}

SpaceArgs == {None, Some(""), Some("spaces/A")}
LimitArgs == {None} \cup {Some(n) : n \in ((0 - MaxUnder)..1) \cup (PageCap..(PageCap + MaxOver))}

SpaceLimitTools == {"list_messages", "list_members", "search_messages", "get_recent_activity"}
SpaceTools == {"send_message", "create_membership", "search_members",
               "get_space", "update_space", "delete_space"}
LimitTools == {"list_spaces"}
MultiSpaceTools == {"find_direct_message", "search_messages", "search_members",
                    "get_recent_activity"}
LocalTools == {"create_card_message", "parse_webhook_event", "validate_webhook_signature",
               "create_interactive_card"}

\* the argument bags tried for a tool: the keys it reads vary, the others are absent
ArgsFor(name) ==
    {NoArgs, [NoArgs EXCEPT !.key = FALSE]}
    \cup (IF name \in SpaceLimitTools
          THEN {[NoArgs EXCEPT !.space = s, !.limit = l] : s \in SpaceArgs, l \in LimitArgs}
          ELSE {})
    \cup (IF name \in SpaceTools
          THEN {[NoArgs EXCEPT !.space = s, !.key = k] : s \in SpaceArgs, k \in BOOLEAN}
          ELSE {})
    \cup (IF name \in LimitTools
          THEN {[NoArgs EXCEPT !.limit = l] : l \in LimitArgs}
          ELSE {})

SeqsUpTo(S, n) == UNION {[1..k -> S] : k \in 0..n}

\* what the environment may do during one invocation, given the state of the
\* credentials and the requests the tool can issue
AuthEnvs(a) ==
    IF ~a.expired THEN {CalmEnv}
    ELSE IF a.credentials = "sa" THEN {CalmEnv, [CalmEnv EXCEPT !.saAttr = FALSE]}
    ELSE {CalmEnv,
          [CalmEnv EXCEPT !.refresh = FALSE],
          [CalmEnv EXCEPT !.refresh = FALSE, !.initRefresh = FALSE],
          [CalmEnv EXCEPT !.refresh = FALSE, !.build = FALSE]}

\* the answers a space may give to the request of a tool that loops over
\* the spaces; the default user argument is "a"
ScanOutcomes(name) ==
    IF name = "find_direct_message"
    THEN {Answer("ok", <<Membership(UsersPrefix \o <<"b">>, <<"B">>)>>),
          Answer("ok", <<Membership(UsersPrefix \o <<"a">>, <<"A">>)>>),
          Answer("403", <<>>), Answer("neterr", <<>>)}
    ELSE {Answer("ok", <<>>), Answer("403", <<>>), Answer("neterr", <<>>)}

ApiEnvs(name, args) ==
    IF name \in LocalTools \/ name \notin ToolNames THEN {CalmEnv}
    ELSE {[CalmEnv EXCEPT !.api = o] : o \in ApiOutcomes}
         \cup (IF name \in MultiSpaceTools /\ ~Truthy(args.space)
               THEN {[CalmEnv EXCEPT !.spaces = sp] : sp \in SeqsUpTo(ScanOutcomes(name), MaxSpaces)}
               ELSE {})

Envs(name, args, a) ==
    {[pe EXCEPT !.saLoad = ae.saLoad, !.initRefresh = ae.initRefresh, !.build = ae.build,
                !.refresh = ae.refresh, !.saAttr = ae.saAttr] :
        ae \in AuthEnvs(a), pe \in ApiEnvs(name, args)}

\* the space listing behind the resource list, and the two requests behind
\* a resource read
ListingEnvs ==
    {[CalmEnv EXCEPT !.api = o, !.spaces = sp] :
        o \in {"ok", "403", "neterr"}, sp \in SeqsUpTo({Answer("ok", <<>>)}, MaxSpaces)}
ReadingEnvs ==
    {[CalmEnv EXCEPT !.api = o, !.api2 = o2] :
        o \in {"ok", "404", "neterr"}, o2 \in {"ok", "403", "neterr"}}
ResourceUris == {<<GchatPrefix, "spaces/A">>, <<"file:///", "notes">>}

StartEnvs ==
    {[CalmEnv EXCEPT !.saLoad = l, !.initRefresh = r, !.build = b] :
        l \in BOOLEAN, r \in BOOLEAN, b \in BOOLEAN}

\* ---------------------------------------------------------------------- Init
NoCall == [name |-> "", args |-> NoArgs, env |-> CalmEnv, blocks |-> <<>>, escaped |-> FALSE,
           executor |-> None, execRaised |-> FALSE, exc |-> NoExc, value |-> Envelope,
           net |-> <<>>, before |-> NewAuth]
NoMapped == [failure |-> NoExc, operation |-> "", result |-> Envelope]
\* completed: some initialize() or ensure_authenticated() call has returned
\* without raising; ensured: some ensure_authenticated() call has; earlier:
\* one had when this call began
\* env, raised and result belong to a test_connection() call: the outcomes it
\* met, whether it raised, and the value it returned
NoHolderCall == [op |-> "", exc |-> NoExc, net |-> <<>>, before |-> NewAuth, after |-> NewAuth,
                 completed |-> FALSE, ensured |-> FALSE, earlier |-> FALSE,
                 env |-> CalmEnv, raised |-> FALSE, result |-> None]

\* per invocation in flight: its position (idle, arrived, done), the state of
\* the credentials when it arrived and when it ran ensure_authenticated(), and
\* what that call did; renewals and attempts count, since the token last
\* expired, the calls that renewed the credentials and the calls that tried
\* to renew credentials that were present
Tasks == 1..MaxTasks
NoTasks == [pc |-> [t \in Tasks |-> "idle"], atArrival |-> [t \in Tasks |-> "valid"],
            saw |-> [t \in Tasks |-> "valid"], did |-> [t \in Tasks |-> "nothing"],
            renewals |-> 0, attempts |-> 0]
NoResource == [op |-> "", env |-> CalmEnv, uri |-> <<>>, resources |-> <<>>,
               space |-> Envelope, messages |-> Envelope, combined |-> FALSE,
               text |-> <<>>, net |-> <<>>]
NoHttp == [manager |-> FALSE, status |-> 0, body |-> <<>>, handed |-> FALSE]

Init ==
    /\ transport \in {"stdio", "http"}
    /\ cfg \in Configs
    /\ providers = ShippedProviders
    /\ phase = "constructed"
    /\ auth = NewAuth
    /\ listed = <<>>
    /\ lastCall = NoCall
    /\ mapped = NoMapped
    /\ holderCall = NoHolderCall
    /\ tasks = NoTasks
    /\ resource = NoResource
    /\ http = NoHttp

\* ------------------------------------------------------------------- actions
\* GoogleChatMCPServer.run: authentication is initialised before the stdio
\* transport is served; a failure ends the process
Run ==
    /\ transport = "stdio"
    /\ phase = "constructed"
    /\ \E e \in StartEnvs :
       \E r \in {initialize(auth, e)} :
         /\ auth' = r.auth
         /\ phase' = IF r.exc = NoExc THEN "serving" ELSE "failed"
    /\ UNCHANGED <<transport, cfg, providers, listed, lastCall, mapped, holderCall, tasks, resource, http>>

\* app_lifespan: initialize_tools() runs before the session manager exists
Lifespan ==
    /\ transport = "http"
    /\ phase = "constructed"
    /\ \E e \in StartEnvs :
       \E r \in {initialize(NewAuth, e)} :
         /\ auth' = r.auth
         /\ phase' = IF r.exc = NoExc THEN "serving" ELSE "failed"
         /\ http' = [http EXCEPT !.manager = session_manager(r)]
    /\ UNCHANGED <<transport, cfg, providers, listed, lastCall, mapped, holderCall, tasks, resource>>

\* time passes and the access token of the credentials runs out
Expire ==
    /\ phase = "serving"
    /\ auth.credentials # "none"
    /\ ~auth.expired
    /\ auth' = [auth EXCEPT !.expired = TRUE]
    /\ UNCHANGED <<transport, cfg, providers, phase, listed, lastCall, mapped, holderCall, tasks, resource, http>>

\* the endpoint is answering a request: it has sent its own response or has
\* handed the request to the session manager
Answering == http.status # 0 \/ http.handed

\* no response is waiting to be written to the client
Idle == lastCall = NoCall /\ listed = <<>> /\ resource = NoResource

Record(name, args, e, r) ==
    [name |-> name, args |-> args, env |-> e, blocks |-> r.blocks, escaped |-> r.escaped,
     executor |-> r.executor, execRaised |-> r.execRaised, exc |-> r.exc,
     value |-> r.value, net |-> r.net, before |-> auth]

HandleCallTool ==
    /\ transport = "stdio"
    /\ phase = "serving"
    /\ Idle
    /\ \E name \in ToolNames \cup UnknownNames :
       \E args \in ArgsFor(name) :
       \E e \in Envs(name, args, auth) :
       \E r \in {handle_call_tool(auth, name, args, e)} :
         /\ auth' = r.auth
         /\ lastCall' = Record(name, args, e, r)
    /\ UNCHANGED <<transport, cfg, providers, phase, listed, mapped, holderCall, tasks, resource, http>>

\* an HTTP request reaches the endpoint mounted at /mcp, at any time of the
\* life of the application
McpEndpoint ==
    /\ transport = "http"
    /\ ~Answering
    /\ Idle
    /\ \E r \in {mcp_endpoint(http.manager)} :
         http' = [http EXCEPT !.status = r.status, !.body = r.body, !.handed = r.handed]
    /\ UNCHANGED <<transport, cfg, providers, phase, auth, listed, lastCall, mapped,
                   holderCall, tasks, resource>>

CallTool ==
    /\ transport = "http"
    /\ phase = "serving"
    /\ http.handed
    /\ Idle
    /\ \E name \in ToolNames \cup UnknownNames :
       \E args \in ArgsFor(name) :
       \E e \in Envs(name, args, auth) :
       \E r \in {call_tool(auth, name, args, e)} :
         /\ auth' = r.auth
         /\ lastCall' = Record(name, args, e, r)
    /\ UNCHANGED <<transport, cfg, providers, phase, listed, mapped, holderCall, tasks, resource, http>>

\* the list-tools request is handled while the response of a tool call may
\* still be waiting to be written
HandleListTools ==
    /\ transport = "stdio"
    /\ phase = "serving"
    /\ listed = <<>>
    /\ resource = NoResource
    /\ listed' = handle_list_tools
    /\ UNCHANGED <<transport, cfg, providers, phase, auth, lastCall, mapped, holderCall, tasks, resource, http>>

ListTools ==
    /\ transport = "http"
    /\ phase = "serving"
    /\ http.handed
    /\ Idle
    /\ listed' = list_tools
    /\ UNCHANGED <<transport, cfg, providers, phase, auth, lastCall, mapped, holderCall, tasks, resource, http>>

HandleListResources ==
    /\ transport = "stdio"
    /\ phase = "serving"
    /\ Idle
    /\ \E e \in ListingEnvs :
       \E r \in {handle_list_resources(auth, e)} :
         resource' = [NoResource EXCEPT !.op = "list", !.env = e, !.resources = r.resources,
                                        !.net = r.net]
    /\ UNCHANGED <<transport, cfg, providers, phase, auth, listed, lastCall, mapped,
                   holderCall, tasks, http>>

HandleReadResource ==
    /\ transport = "stdio"
    /\ phase = "serving"
    /\ Idle
    /\ \E uri \in ResourceUris :
       \E e \in ReadingEnvs :
       \E r \in {handle_read_resource(auth, uri, e)} :
         resource' = [NoResource EXCEPT !.op = "read", !.env = e, !.uri = uri,
                                        !.space = r.space, !.messages = r.messages,
                                        !.combined = r.combined, !.text = r.text,
                                        !.net = r.net]
    /\ UNCHANGED <<transport, cfg, providers, phase, auth, listed, lastCall, mapped,
                   holderCall, tasks, http>>

\* the transport writes the result of the finished request to the client
Respond ==
    /\ ~Idle \/ Answering
    /\ lastCall' = NoCall
    /\ listed' = <<>>
    /\ resource' = NoResource
    /\ http' = [http EXCEPT !.status = 0, !.body = <<>>, !.handed = FALSE]
    /\ UNCHANGED <<transport, cfg, providers, phase, auth, mapped, holderCall, tasks>>

Next ==
    \/ Run
    \/ Lifespan
    \/ McpEndpoint
    \/ Expire
    \/ HandleCallTool
    \/ CallTool
    \/ HandleListTools
    \/ ListTools
    \/ HandleListResources
    \/ HandleReadResource
    \/ Respond

Spec == Init /\ [][Next]_vars

\* --------------------------------------------- the error mapper on its own
\* failures handed to _handle_api_error: any exception class, with the status
\* of its resp attribute or without one
Statuses == {400, 401, 403, 404, 429, 500, 503}
Failures ==
    {[cls |-> c, msg |-> <<"failure ", c>>, status |-> st] :
        c \in {"HttpError", "OSError", "ValueError", "KeyError"},
        st \in {None} \cup {Some(n) : n \in Statuses}}

InitMapper ==
    /\ transport = "stdio"
    /\ cfg \in {c \in Configs : c.service_account_path /\ ~c.client_id /\ ~c.refresh_token}
    /\ providers = ShippedProviders
    /\ phase = "constructed"
    /\ auth = NewAuth
    /\ listed = <<>>
    /\ lastCall = NoCall
    /\ mapped = NoMapped
    /\ holderCall = NoHolderCall
    /\ tasks = NoTasks
    /\ resource = NoResource
    /\ http = NoHttp

MapError ==
    /\ \E f \in Failures, operation \in ToolNames :
         mapped' = [failure |-> f, operation |-> operation,
                    result |-> _handle_api_error(f, operation)]
    /\ UNCHANGED <<transport, cfg, providers, phase, auth, listed, lastCall, holderCall, tasks, resource, http>>

NextMapper == MapError

SpecMapper == InitMapper /\ [][NextMapper]_vars

\* -------------------------- the stdio server running on OAuth credentials
InitOAuth ==
    /\ transport = "stdio"
    /\ cfg \in {c \in Configs : ~c.service_account_path /\ c.client_id /\ c.refresh_token}
    /\ providers = ShippedProviders
    /\ phase = "constructed"
    /\ auth = NewAuth
    /\ listed = <<>>
    /\ lastCall = NoCall
    /\ mapped = NoMapped
    /\ holderCall = NoHolderCall
    /\ tasks = NoTasks
    /\ resource = NoResource
    /\ http = NoHttp

NextOAuth ==
    \/ Run
    \/ Expire
    \/ HandleCallTool
    \/ HandleListTools
    \/ Respond

SpecOAuth == InitOAuth /\ [][NextOAuth]_vars

\* ------------------------------------- catalogs with a name declared twice
\* The dispatcher is assembled from five providers; here a provider may
\* declare, next to its own tools, a name that another category declares.
Redeclare(c, n) ==
    [ShippedProviders EXCEPT ![c] = [tools |-> Append(@.tools, n), names |-> Append(@.names, n)]]

AssemblyProviders ==
    {ShippedProviders, Redeclare("message", "list_spaces"), Redeclare("member", "list_spaces"),
     Redeclare("webhook", "send_message")}

InitAssembly ==
    /\ transport \in {"stdio", "http"}
    /\ cfg \in {c \in Configs : c.service_account_path /\ ~c.client_id /\ ~c.refresh_token}
    /\ providers \in AssemblyProviders
    /\ phase = "constructed"
    /\ auth = NewAuth
    /\ listed = <<>>
    /\ lastCall = NoCall
    /\ mapped = NoMapped
    /\ holderCall = NoHolderCall
    /\ tasks = NoTasks
    /\ resource = NoResource
    /\ http = NoHttp

SpecAssembly == InitAssembly /\ [][Next]_vars

\* ---------------------------------------------- remote data of the scans
\* messages fetched by get_recent_activity, the clock standing at
\* 2024-01-03T11:00:00Z: one hour old; half a second younger than that, with
\* fractional seconds; 07:30Z written with an offset of five hours; thirty
\* hours old; a createTime that is no timestamp; no createTime
StampHourAgo ==
    <<"2", "0", "2", "4", "-", "0", "1", "-", "0", "3", "T", "1", "0", ":", "0", "0", ":",
    "0", "0", "Z">>
StampHourAgoFraction ==
    <<"2", "0", "2", "4", "-", "0", "1", "-", "0", "3", "T", "1", "0", ":", "0", "0", ":",
    "0", "0", ".", "5", "0", "0", "Z">>
StampOffset ==
    <<"2", "0", "2", "4", "-", "0", "1", "-", "0", "3", "T", "1", "2", ":", "3", "0", ":",
    "0", "0", "+", "0", "5", ":", "0", "0">>
StampThirtyHoursAgo ==
    <<"2", "0", "2", "4", "-", "0", "1", "-", "0", "2", "T", "0", "5", ":", "0", "0", ":",
    "0", "0", "Z">>
StampInvalid ==
    <<"t", "o", "d", "a", "y">>
Stamps == {StampHourAgo, StampHourAgoFraction, StampOffset, StampThirtyHoursAgo,
           StampInvalid, <<>>}
NowMs == ((2 * 24 + 11) * 3600) * 1000

\* message texts and queries of search_messages
TextHello ==
    <<"H", "e", "l", "l", "o">>
TextOh ==
    <<"o", "h">>
TextAbc ==
    <<"a", "b", "c">>
Texts == {TextHello, TextOh, TextAbc, <<>>}
Queries == {<<"h", "e", "l", "l", "o">>, <<"H", "E", "L">>, <<"o">>, <<>>}

\* users looked for by find_direct_message and member names of the spaces
Users == {<<"a">>, UsersPrefix \o <<"a">>, <<"a", "@", "b">>, UsersPrefix \o <<"a", "@", "b">>}
MemberNames == {UsersPrefix \o <<"a">>, UsersPrefix \o <<"b">>, UsersPrefix \o <<"a", "@", "b">>}

\* ------------------------------ the stdio server scanning spaces with data
\* The spaces of the listing answer "ok" or 403; placed gives every element
\* with the index of the space that holds it.
RECURSIVE FeedOf(_, _)
FeedOf(placed, i) ==
    IF placed = <<>> THEN <<>>
    ELSE (IF Head(placed)[2] = i THEN <<Head(placed)[1]>> ELSE <<>>) \o FeedOf(Tail(placed), i)

RichAnswers(elements) ==
    {[i \in 1..Len(outs) |-> Answer(outs[i], IF outs[i] = "ok" THEN FeedOf(placed, i) ELSE <<>>)] :
        outs \in SeqsUpTo({"ok", "403"}, MaxSpaces),
        placed \in SeqsUpTo(elements \X (1..MaxSpaces), MaxFeed)}

ScanLimits == {None, Some(1), Some(2)}

InitScan ==
    /\ transport = "stdio"
    /\ cfg \in {c \in Configs : c.service_account_path /\ ~c.client_id /\ ~c.refresh_token}
    /\ providers = ShippedProviders
    /\ phase = "constructed"
    /\ auth = NewAuth
    /\ listed = <<>>
    /\ lastCall = NoCall
    /\ mapped = NoMapped
    /\ holderCall = NoHolderCall
    /\ tasks = NoTasks
    /\ resource = NoResource
    /\ http = NoHttp

\* handle_call_tool on one tool, with the given argument bags and environments
ServeCall(name, argsSet, envs) ==
    /\ transport = "stdio"
    /\ phase = "serving"
    /\ Idle
    /\ \E args \in argsSet :
       \E e \in envs :
       \E r \in {handle_call_tool(auth, name, args, e)} :
         /\ auth' = r.auth
         /\ lastCall' = Record(name, args, e, r)
    /\ UNCHANGED <<transport, cfg, providers, phase, listed, mapped, holderCall, tasks, resource, http>>

RecentActivityCall ==
    ServeCall("get_recent_activity",
              {[NoArgs EXCEPT !.hours = h, !.limit = l] : h \in {None, Some(1)}, l \in ScanLimits},
              {[CalmEnv EXCEPT !.spaces = sp, !.now = NowMs] :
                  sp \in RichAnswers({Message("m", <<>>, t) : t \in Stamps})})

SearchMessagesCall ==
    ServeCall("search_messages",
              {[NoArgs EXCEPT !.query = q, !.limit = l] : q \in Queries, l \in ScanLimits},
              {[CalmEnv EXCEPT !.spaces = sp] :
                  sp \in RichAnswers({Message("m", t, StampHourAgo) : t \in Texts})})

FindDirectMessageCall ==
    ServeCall("find_direct_message",
              {[NoArgs EXCEPT !.user = u] : u \in Users},
              {[CalmEnv EXCEPT !.spaces = sp] :
                  sp \in RichAnswers({Membership(n, <<>>) : n \in MemberNames})})

NextScan ==
    \/ Run
    \/ RecentActivityCall
    \/ SearchMessagesCall
    \/ FindDirectMessageCall
    \/ Respond

SpecScan == InitScan /\ [][NextScan]_vars

\* --------------------------- the stdio server validating webhook signatures
Bodies == {<<"{", "}">>, <<"h", "i">>}
Secrets == {<<"k">>, <<"j">>}
\* request timestamps around a clock of 1000 seconds: 300 and 301 seconds
\* old, of this second, 301 seconds ahead, and one that is no number
RequestTimes == {<<"7", "0", "0">>, <<"6", "9", "9">>, <<"1", "0", "0", "0">>,
                 <<"1", "3", "0", "1">>, <<"n", "o", "w">>}
Clocks == {1000, 100000}

\* the signature of the request under a secret, as the sender computes it
Signed(secret, timestamp, body) == B64Encode(HmacSha256(secret, timestamp \o <<".">> \o body))

\* signature headers that carry the value sig: under v1, after a t field,
\* under another key, with a blank before the key, with no key, not at all,
\* and under v1 twice with the second value cut short
Headers(sig, timestamp) ==
    {<<"v", "1", "=">> \o sig,
     <<"t", "=">> \o timestamp \o <<",", "v", "1", "=">> \o sig,
     <<"v", "2", "=">> \o sig,
     <<"t", "=">> \o timestamp \o <<",", " ", "v", "1", "=">> \o sig,
     sig,
     <<"t", "=">> \o timestamp,
     <<"v", "1", "=">> \o sig \o <<",", "v", "1", "=">>}

\* the requests: signed with the secret of the receiver or with another one
SignatureArgs ==
    UNION {{[NoArgs EXCEPT !.request_body = b, !.timestamp = t, !.webhook_secret = k,
                           !.signature = h] : h \in Headers(Signed(k2, t, b), t)} :
              b \in Bodies, t \in RequestTimes, k \in Secrets, k2 \in Secrets}

ValidateSignatureCall ==
    ServeCall("validate_webhook_signature", SignatureArgs,
              {[CalmEnv EXCEPT !.now = n] : n \in Clocks})

NextWebhook ==
    \/ Run
    \/ ValidateSignatureCall
    \/ Respond

SpecWebhook == InitScan /\ [][NextWebhook]_vars

\* ------------------------------------- the authentication holder on its own
\* A GoogleChatAuth object built from any configuration and driven directly:
\* initialize(), ensure_authenticated() and get_service() in any order.
HolderConfigs ==
    {[service_account_path |-> sa, file_exists |-> ex, client_id |-> id,
      client_secret |-> sec, refresh_token |-> tok, default_space |-> None] :
        sa \in BOOLEAN, ex \in BOOLEAN, id \in BOOLEAN, sec \in BOOLEAN, tok \in BOOLEAN}

HolderEnvs ==
    {[CalmEnv EXCEPT !.saLoad = l, !.initRefresh = r, !.build = b, !.refresh = f, !.saAttr = s] :
        l \in BOOLEAN, r \in BOOLEAN, b \in BOOLEAN, f \in BOOLEAN, s \in BOOLEAN}

ProbeEnvs == {[e EXCEPT !.api = o] : e \in HolderEnvs, o \in {"ok", "403", "500", "neterr"}}

InitHolder ==
    /\ transport = "stdio"
    /\ cfg \in HolderConfigs
    /\ providers = ShippedProviders
    /\ phase = "constructed"
    /\ auth = NewAuth
    /\ listed = <<>>
    /\ lastCall = NoCall
    /\ mapped = NoMapped
    /\ holderCall = NoHolderCall
    /\ tasks = NoTasks
    /\ resource = NoResource
    /\ http = NoHttp

Initialize ==
    /\ \E e \in HolderEnvs :
       \E r \in {initialize(auth, e)} :
         /\ auth' = r.auth
         /\ holderCall' = [op |-> "initialize", exc |-> r.exc, net |-> r.net, before |-> auth,
                           after |-> r.auth,
                           completed |-> holderCall.completed \/ r.exc = NoExc,
                           ensured |-> holderCall.ensured, earlier |-> holderCall.ensured,
                           env |-> CalmEnv, raised |-> FALSE, result |-> None]
    /\ UNCHANGED <<transport, cfg, providers, phase, listed, lastCall, mapped, tasks, resource, http>>

EnsureAuthenticated ==
    /\ \E e \in HolderEnvs :
       \E r \in {ensure_authenticated(auth, e)} :
         /\ auth' = r.auth
         /\ holderCall' = [op |-> "ensure_authenticated", exc |-> r.exc, net |-> r.net,
                           before |-> auth, after |-> r.auth,
                           completed |-> holderCall.completed \/ r.exc = NoExc,
                           ensured |-> holderCall.ensured \/ r.exc = NoExc,
                           earlier |-> holderCall.ensured,
                           env |-> CalmEnv, raised |-> FALSE, result |-> None]
    /\ UNCHANGED <<transport, cfg, providers, phase, listed, lastCall, mapped, tasks, resource, http>>

GetService ==
    /\ holderCall' = [holderCall EXCEPT !.op = "get_service", !.exc = get_service(auth).exc,
                                        !.net = <<>>, !.before = auth, !.after = auth,
                                        !.earlier = holderCall.ensured,
                                        !.env = CalmEnv, !.raised = FALSE, !.result = None]
    /\ UNCHANGED <<transport, cfg, providers, phase, auth, listed, lastCall, mapped, tasks, resource, http>>

TestConnection ==
    /\ \E e \in ProbeEnvs :
       \E r \in {test_connection(auth, e)} :
         /\ auth' = r.auth
         /\ holderCall' = [op |-> "test_connection", exc |-> r.exc, net |-> r.net,
                           before |-> auth, after |-> r.auth,
                           completed |-> holderCall.completed \/ r.result = Some(TRUE),
                           ensured |-> holderCall.ensured \/ r.result = Some(TRUE),
                           earlier |-> holderCall.ensured,
                           env |-> e, raised |-> r.raised, result |-> r.result]
    /\ UNCHANGED <<transport, cfg, providers, phase, listed, lastCall, mapped, tasks, resource, http>>

\* the access token obtained by a successful initialize() runs out
TokenExpires ==
    /\ auth.service
    /\ ~auth.expired
    /\ auth' = [auth EXCEPT !.expired = TRUE]
    /\ UNCHANGED <<transport, cfg, providers, phase, listed, lastCall, mapped, holderCall, tasks, resource, http>>

NextHolder ==
    \/ Initialize
    \/ EnsureAuthenticated
    \/ GetService
    \/ TestConnection
    \/ TokenExpires

SpecHolder == InitHolder /\ [][NextHolder]_vars

\* ------------------------- concurrent tool invocations on the shared holder
\* Every tool invocation is a task of the one event loop and begins with
\* BaseTool._ensure_authenticated().  ensure_authenticated() and initialize()
\* are coroutines whose bodies await nothing but each other and call
\* credentials.refresh() and build() synchronously, so a task that entered
\* ensure_authenticated() runs it to its end before another task runs.
CredentialState(a) ==
    IF a.credentials = "none" THEN "absent" ELSE IF a.expired THEN "expired" ELSE "valid"

\* what one ensure_authenticated() call did: renewed the credentials by a
\* refresh or an initialization, tried it and raised, or did nothing
Did(before, r) ==
    IF before.credentials = "none"
    THEN IF r.exc = NoExc THEN "initialized" ELSE "failed"
    ELSE IF r.net = <<>> THEN "nothing"
    ELSE IF r.exc # NoExc THEN "failed"
    ELSE IF r.net = <<RefreshCall>> THEN "refreshed" ELSE "initialized"

Arrive(t) ==
    /\ tasks.pc[t] = "idle"
    /\ tasks' = [tasks EXCEPT !.pc[t] = "arrived", !.atArrival[t] = CredentialState(auth)]
    /\ UNCHANGED <<transport, cfg, providers, phase, auth, listed, lastCall, mapped,
                   holderCall, resource, http>>

\* BaseTool._ensure_authenticated of the invocation; the request the tool
\* issues afterwards does not touch the holder
ToolEnsures(t) ==
    /\ tasks.pc[t] = "arrived"
    /\ tasks.attempts <= MaxTasks
    /\ tasks.renewals <= MaxTasks
    /\ \E e \in HolderEnvs :
       \E r \in {ensure_authenticated(auth, e)} :
       \E d \in {Did(auth, r)} :
         /\ auth' = r.auth
         /\ tasks' = [tasks EXCEPT
                !.pc[t] = "done", !.saw[t] = CredentialState(auth), !.did[t] = d,
                !.renewals = @ + (IF d \in {"refreshed", "initialized"} THEN 1 ELSE 0),
                !.attempts = @ + (IF d # "nothing" /\ auth.credentials # "none" THEN 1 ELSE 0)]
    /\ UNCHANGED <<transport, cfg, providers, phase, listed, lastCall, mapped,
                   holderCall, resource, http>>

\* the response of the invocation has been written
Finish(t) ==
    /\ tasks.pc[t] = "done"
    /\ tasks' = [tasks EXCEPT !.pc[t] = "idle", !.did[t] = "nothing", !.saw[t] = "valid",
                              !.atArrival[t] = "valid"]
    /\ UNCHANGED <<transport, cfg, providers, phase, auth, listed, lastCall, mapped,
                   holderCall, resource, http>>

\* the access token runs out while invocations are waiting to run
TaskTokenExpires ==
    /\ auth.service
    /\ ~auth.expired
    /\ \A t \in Tasks : tasks.pc[t] # "done"
    /\ auth' = [auth EXCEPT !.expired = TRUE]
    /\ tasks' = [tasks EXCEPT !.renewals = 0, !.attempts = 0]
    /\ UNCHANGED <<transport, cfg, providers, phase, listed, lastCall, mapped,
                   holderCall, resource, http>>

NextTasks ==
    \/ \E t \in Tasks : Arrive(t)
    \/ \E t \in Tasks : ToolEnsures(t)
    \/ \E t \in Tasks : Finish(t)
    \/ TaskTokenExpires

SpecTasks == InitHolder /\ [][NextTasks]_vars

\* =================================================================== claims
Called == lastCall.name # ""
ProviderNames == UNION {Range(providers[c].names) : c \in Range(Categories)}
ApiRequests(net) == {i \in 1..Len(net) : net[i].kind = "api"}
CategoryOf(name) == CHOOSE c \in Range(Categories) : name \in Range(get_tool_names(c))
MissingSpaceText == <<"No space specified and no default space configured">>
SpaceResolving == {"send_message", "list_messages", "list_members", "create_membership"}

\* C1: a call of a name that no category lists returns exactly one text
\* block that contains "Unknown tool" and the requested name, and runs no
\* executor, in the stdio server and in the stateless HTTP server.
UnknownToolReported ==
    (Called /\ lastCall.name \notin ProviderNames) =>
        /\ Len(lastCall.blocks) = 1
        /\ lastCall.blocks[1].type = "text"
        /\ Contains(lastCall.blocks[1].text, "Unknown tool")
        /\ Contains(lastCall.blocks[1].text, lastCall.name)
        /\ lastCall.executor = None
        /\ ~lastCall.escaped

UnknownToolWitness ==
    /\ transport = "stdio"
    /\ lastCall.name = "nonexistent_tool"
    /\ lastCall.blocks = <<TextContent(<<"Error: ", "Unknown tool", ": ", "nonexistent_tool">>)>>

\* C2: whatever the tool name, the arguments and the outcome of the owning
\* executor (an envelope or a raised exception), the call-tool handler
\* returns a non-empty list of text blocks and no exception escapes it.
AlwaysContentBlocks ==
    Called =>
        /\ ~lastCall.escaped
        /\ Len(lastCall.blocks) >= 1
        /\ \A i \in 1..Len(lastCall.blocks) : lastCall.blocks[i].type = "text"

AlwaysContentWitness ==
    /\ Called
    /\ lastCall.execRaised
    /\ lastCall.exc.cls = "RefreshError"
    /\ Len(lastCall.blocks) = 1

\* C3: a call of a category executor's execute() returns an envelope and
\* never raises, whatever the state of the authentication holder.
ExecuteNeverRaises ==
    (Called /\ lastCall.executor # None) => ~lastCall.execRaised

\* C4: the list-tools result holds exactly one declaration for every name of
\* the five get_tool_names() lists, and no name is listed by two categories.
OneSpecPerName ==
    listed # <<>> =>
        /\ \A n \in ProviderNames : Cardinality({i \in 1..Len(listed) : listed[i] = n}) = 1
        /\ \A c1, c2 \in Range(Categories) :
             c1 # c2 => Range(providers[c1].names) \cap Range(providers[c2].names) = {}

OneSpecPerNameWitness ==
    /\ Len(listed) = 25
    /\ \E i \in 1..Len(listed) : listed[i] = "find_direct_message"

\* C5: a server assembled from categories that declare a common name fails
\* fast: it never serves, lists or routes a call.
HasDuplicateNames ==
    \E c1, c2 \in Range(Categories) :
        c1 # c2 /\ Range(providers[c1].names) \cap Range(providers[c2].names) # {}

ClampedTools == {"list_messages", "list_spaces", "list_members", "search_messages"}
OverLimit(c) == IsSet(c.args.limit) /\ Val(c.args.limit) > PageCap
SpaceGiven(c) ==
    \/ c.name = "list_spaces"
    \/ Truthy(c.args.space)
    \/ (c.name # "search_messages" /\ Truthy(DefaultSpaceOf(CategoryOf(c.name))))

LimitAbove100Clamped ==
    (Called /\ lastCall.name \in ClampedTools /\ OverLimit(lastCall)
        /\ (lastCall.name = "search_messages" => Truthy(lastCall.args.space))) =>
        /\ \A i \in ApiRequests(lastCall.net) :
             IsSet(lastCall.net[i].pageSize) /\ Val(lastCall.net[i].pageSize) <= PageCap
        /\ (~lastCall.execRaised /\ SpaceGiven(lastCall) /\ lastCall.args.key) =>
             ApiRequests(lastCall.net) # {}

LimitAbove100Witness ==
    /\ lastCall.name = "list_messages"
    /\ lastCall.args.limit = Some(PageCap + 1)
    /\ \E i \in ApiRequests(lastCall.net) : lastCall.net[i].pageSize = Some(PageCap)
    /\ lastCall.value.success = Some(TRUE)

\* C7: for every integer limit, the page size that list_messages,
\* list_spaces and list_members pass to the API lies in 1..100.
PageSizeInRange ==
    (Called /\ lastCall.name \in {"list_messages", "list_spaces", "list_members"}) =>
        \A i \in ApiRequests(lastCall.net) :
            /\ IsSet(lastCall.net[i].pageSize)
            /\ Val(lastCall.net[i].pageSize) \in 1..PageCap

\* C8: a space-resolving tool called with no space argument and no default
\* space configured ends with the validation error envelope, and the
\* invocation makes no network call, neither an API request nor a refresh.
NoNetworkOnMissingSpace ==
    (Called /\ lastCall.name \in SpaceResolving /\ lastCall.executor # None
        /\ ~Truthy(lastCall.args.space) /\ ~Truthy(cfg.default_space)) =>
        /\ ~lastCall.execRaised
        /\ lastCall.value.error = Some(MissingSpaceText)
        /\ lastCall.net = <<>>

\* C9: with a default space configured, a space-resolving tool called
\* without a space argument issues its request on the default space; the
\* missing-space error needs both to be absent.
DefaultSpaceUsed ==
    (Called /\ lastCall.name \in SpaceResolving /\ lastCall.executor # None
        /\ ~lastCall.execRaised /\ lastCall.args.key
        /\ ~Truthy(lastCall.args.space) /\ Truthy(cfg.default_space)) =>
        /\ lastCall.value.error # Some(MissingSpaceText)
        /\ \E i \in ApiRequests(lastCall.net) : lastCall.net[i].parent = cfg.default_space

\* C10: the error mapper returns an error envelope for every failure: the
\* permission-denied, not-found and rate-limit messages with the status for
\* 403, 404 and 429, and for any other status or none the generic message
\* that embeds the operation name and the description of the failure.
Special == {403, 404, 429}
MapperContract ==
    mapped.operation # "" =>
        LET f == mapped.failure
            r == mapped.result IN
        /\ IsSet(r.error)
        /\ r.success = None
        /\ (f.status = Some(403) =>
              /\ r.error = Some(<<"Permission denied. Check your authentication and API permissions.">>)
              /\ r.status = Some(403))
        /\ (f.status = Some(404) =>
              /\ r.error = Some(<<"Resource not found. Check the space/message ID.">>)
              /\ r.status = Some(404))
        /\ (f.status = Some(429) =>
              /\ r.error = Some(<<"Rate limit exceeded. Please try again later.">>)
              /\ r.status = Some(429))
        /\ ((f.status = None \/ Val(f.status) \notin Special) =>
              /\ Contains(Val(r.error), mapped.operation)
              /\ Len(Val(r.error)) = 3 + Len(StrOf(f))
              /\ SubSeq(Val(r.error), 4, Len(Val(r.error))) = StrOf(f)
              /\ r.status = None)

MapperWitness ==
    /\ mapped.failure.status = Some(429)
    /\ mapped.operation = "list_spaces"
    /\ mapped.result.status = Some(429)

\* C11: in an operation that loops over several spaces (search_messages and
\* search_members without a space argument, get_recent_activity,
\* find_direct_message), a per-space request that fails, with an HTTP error
\* or with another network failure, does not abort the operation: the
\* result carries no error.
FailedRequests(c) ==
    {i \in 1..Len(c.env.spaces) :
        /\ c.env.spaces[i].out # "ok"
        /\ \E k \in 1..Len(c.net) : c.net[k].kind = "api" /\ c.net[k].parent = Some(SpaceNames[i])}
PerSpaceFailureSkipped ==
    (/\ lastCall.name \in MultiSpaceTools
     /\ ~Truthy(lastCall.args.space)
     /\ ~lastCall.execRaised
     /\ FailedRequests(lastCall) # {})
        => ~IsSet(lastCall.value.error)

\* C12: the activities list returned by get_recent_activity is in descending
\* order of the creation instants of its messages, whatever textual form the
\* timestamps have (UTC 'Z' suffix, numeric offset, with or without
\* fractional seconds).
ActivityDone ==
    /\ lastCall.name = "get_recent_activity"
    /\ lastCall.value.success = Some(TRUE)
InstantOf(stamp) == FromIsoFormat(ReplaceZ(stamp)).instant
ActivitiesChronological ==
    ActivityDone =>
        LET acts == Val(lastCall.value.items) IN
        \A i, j \in 1..Len(acts) :
            i < j => InstantOf(acts[i].timestamp) >= InstantOf(acts[j].timestamp)

\* C13: get_recent_activity with hours = h keeps a fetched message if and
\* only if its creation timestamp is at or after now - h hours: every entry
\* of the result is that recent, and when the limit does not truncate the
\* list every fetched message that recent is an entry; with hours = 24 a
\* message from now - 30h is never in the result.
HoursOf(c) == IF IsSet(c.args.hours) THEN Val(c.args.hours) ELSE 24
ActivityLimitOf(c) == IF IsSet(c.args.limit) THEN Val(c.args.limit) ELSE ActivityDefaultLimit
AtOrAfter(stamp, c) ==
    /\ FromIsoFormat(ReplaceZ(stamp)).kind = "aware"
    /\ InstantOf(stamp) >= c.env.now - HoursOf(c) * MsPerHour
RecentFetched(c) ==
    {p \in (1..Len(c.env.spaces)) \X (1..MaxFeed + 1) :
        /\ c.env.spaces[p[1]].out = "ok"
        /\ p[2] <= Len(c.env.spaces[p[1]].feed)
        /\ AtOrAfter(c.env.spaces[p[1]].feed[p[2]].createTime, c)}
RecentRetained ==
    ActivityDone =>
        LET acts == Val(lastCall.value.items)
            recent == RecentFetched(lastCall) IN
        /\ \A i \in 1..Len(acts) : AtOrAfter(acts[i].timestamp, lastCall)
        /\ Len(acts) = Min(ActivityLimitOf(lastCall), Cardinality(recent))
        /\ Cardinality(recent) <= ActivityLimitOf(lastCall) =>
             \A p \in recent :
                 \E i \in 1..Len(acts) :
                     /\ acts[i].space = SpaceNames[p[1]]
                     /\ acts[i].data = lastCall.env.spaces[p[1]].feed[p[2]]
        /\ HoursOf(lastCall) = 24 /\ lastCall.env.now = NowMs =>
             \A i \in 1..Len(acts) : acts[i].timestamp # StampThirtyHoursAgo

RecentRetainedWitness ==
    /\ ActivityDone
    /\ HoursOf(lastCall) = 24
    /\ lastCall.env.now = NowMs
    /\ \E i \in 1..Len(lastCall.env.spaces) :
         lastCall.env.spaces[i] =
             Answer("ok", <<Message("m", <<>>, StampHourAgo), Message("m", <<>>, StampThirtyHoursAgo)>>)
    /\ Len(Val(lastCall.value.items)) = 1
    /\ Val(lastCall.value.items)[1].timestamp = StampHourAgo

\* C14: find_direct_message scans the direct-message spaces in listing order;
\* when every request it issues is answered, it returns success true,
\* existing true and the first space whose member list holds the formatted
\* user identifier, and when no space holds the user it returns success
\* false with no error field, without raising.
LookupDone ==
    /\ lastCall.name = "find_direct_message"
    /\ lastCall.args.key
    /\ lastCall.before.service
    /\ lastCall.env.api = "ok"
    /\ FailedRequests(lastCall) = {}
HoldingSpaces(c) ==
    {i \in 1..Len(c.env.spaces) :
        /\ c.env.spaces[i].out = "ok"
        /\ \E k \in 1..Len(c.env.spaces[i].feed) :
               c.env.spaces[i].feed[k].name = FormatUser(c.args.user)}
SearchDone ==
    /\ lastCall.name = "search_messages"
    /\ ~Truthy(lastCall.args.space)
    /\ lastCall.value.success = Some(TRUE)
    /\ Limit(lastCall.args) >= 1
RECURSIVE Fetched(_, _)
Fetched(answers, i) ==
    IF i > Len(answers) THEN <<>>
    ELSE (IF answers[i].out = "ok" THEN TagAll(SpaceNames[i], answers[i].feed) ELSE <<>>)
         \o Fetched(answers, i + 1)
SameLetters(q, t) ==
    \E i \in 0..(Len(t) - Len(q)) :
        \A k \in 1..Len(q) : LowerChar(t[i + k]) = LowerChar(q[k])
ValidationDone ==
    /\ lastCall.name = "validate_webhook_signature"
    /\ lastCall.value.success = Some(TRUE)
Age(c) ==
    LET t == IntOf(c.args.timestamp) IN
    IF c.env.now >= t THEN c.env.now - t ELSE t - c.env.now
CorrectlySigned(c) ==
    c.args.signature =
        <<"v", "1", "=">> \o Signed(c.args.webhook_secret, c.args.timestamp, c.args.request_body)
RecencyAndValidity ==
    ValidationDone =>
        LET r == lastCall.value IN
        /\ r.is_recent = Some(Age(lastCall) <= 300)
        /\ r.signature_valid = Some(Val(r.is_valid) /\ Val(r.is_recent))
        /\ CorrectlySigned(lastCall) => r.is_valid = Some(TRUE)

RecencyWitness ==
    /\ ValidationDone
    /\ CorrectlySigned(lastCall)
    /\ lastCall.env.now = 100000
    /\ lastCall.value.is_valid = Some(TRUE)
    /\ lastCall.value.is_recent = Some(FALSE)
    /\ lastCall.value.signature_valid = Some(FALSE)

\* C17: validate_webhook_signature reports is_valid true if and only if the
\* value of the v1 field of the comma-separated key=value signature header
\* equals base64(HMAC-SHA256(secret, "{timestamp}.{rawBody}")); a header with
\* no v1 field, or with the signature under another key, is not valid.
V1Fields(header) ==
    LET parts == Split(header, ",", <<>>, <<>>) IN
    {i \in 1..Len(parts) : StartsWith(parts[i], <<"v", "1", "=">>)}
V1Decides ==
    ValidationDone =>
        LET c == lastCall
            parts == Split(c.args.signature, ",", <<>>, <<>>)
            fields == V1Fields(c.args.signature)
            expected == Signed(c.args.webhook_secret, c.args.timestamp, c.args.request_body) IN
        /\ fields = {} => c.value.is_valid = Some(FALSE)
        /\ \A i \in fields :
             fields = {i} => c.value.is_valid = Some(Drop(parts[i], 3) = expected)

V1Witness ==
    /\ ValidationDone
    /\ lastCall.args.signature =
           <<"v", "2", "=">> \o Signed(lastCall.args.webhook_secret, lastCall.args.timestamp,
                                       lastCall.args.request_body)
    /\ lastCall.value.is_valid = Some(FALSE)

\* C18: get_service() raises the not-initialized error if no initialize() or
\* ensure_authenticated() call has completed without raising so far, and
\* returns the built service once one has.
ServiceAsked == holderCall.op = "get_service"
NotInitialized ==
    Exc("RuntimeError", <<"Authentication not initialized. Call initialize() first.">>)
ServiceOnceAuthenticated ==
    ServiceAsked =>
        /\ ~holderCall.completed => holderCall.exc = NotInitialized
        /\ holderCall.completed => holderCall.exc = NoExc

\* C19: initialize() selects the credential source in a fixed order: the
\* service-account file when its path is configured and the file exists,
\* otherwise OAuth when client id, client secret and refresh token are all
\* present, otherwise it fails with the 'No valid authentication method
\* found' error and leaves credentials and service as they were (unset); a
\* partial OAuth triple counts as absent.
Initialized == holderCall.op = "initialize" /\ holderCall.before.credentials = "none"
FileUsable == cfg.service_account_path /\ cfg.file_exists
FullTriple == cfg.client_id /\ cfg.client_secret /\ cfg.refresh_token
NoMethodFound ==
    Exc("ValueError", <<"No valid authentication method found. ",
                        "Please provide either service account JSON or OAuth2 credentials.">>)
SourceOrder ==
    Initialized =>
        /\ FileUsable =>
             /\ holderCall.after.credentials \in {"sa", "none"}
             /\ holderCall.exc = NoExc => holderCall.after.credentials = "sa"
             /\ holderCall.net = <<>>
             /\ holderCall.exc # NoMethodFound
        /\ (~FileUsable /\ FullTriple) =>
             /\ holderCall.after.credentials = "oauth"
             /\ holderCall.net = <<RefreshCall>>
             /\ holderCall.exc # NoMethodFound
        /\ (~FileUsable /\ ~FullTriple) =>
             /\ holderCall.exc = NoMethodFound
             /\ holderCall.net = <<>>
             /\ holderCall.after = NewAuth

SourceOrderWitness ==
    /\ Initialized
    /\ cfg.service_account_path /\ ~cfg.file_exists
    /\ cfg.client_id /\ ~cfg.client_secret /\ cfg.refresh_token
    /\ holderCall.exc = NoMethodFound
    /\ holderCall.after = NewAuth

\* C20: ensure_authenticated() is idempotent: after one call of it has
\* returned, a further call made while the credentials are not expired
\* performs no refresh and no initialization and leaves credentials and
\* service unchanged.
EnsuredAgain ==
    /\ holderCall.op = "ensure_authenticated"
    /\ holderCall.earlier
    /\ ~holderCall.before.expired
EnsureIdempotent ==
    EnsuredAgain =>
        /\ holderCall.exc = NoExc
        /\ holderCall.net = <<>>
        /\ holderCall.after = holderCall.before

EnsureIdempotentWitness ==
    /\ EnsuredAgain
    /\ holderCall.before.credentials = "oauth"
    /\ holderCall.before.service
    /\ holderCall.after = holderCall.before

\* C21: when several tool invocations are in flight on the shared holder and
\* call ensure_authenticated() while the credentials are expired or absent,
\* at most one of them renews the credentials for that expiry (by a refresh
\* or an initialization), at most one tries to, and a call that finds valid
\* credentials renews nothing: no refresh runs beside or after another one.
Renewing == {"refreshed", "initialized", "failed"}
AtMostOneRenewal ==
    /\ tasks.renewals <= 1
    /\ tasks.attempts <= 1
    /\ \A t \in Tasks :
         tasks.pc[t] = "done" /\ tasks.did[t] \in Renewing => tasks.saw[t] # "valid"

AtMostOneRenewalWitness ==
    \E t1 \in Tasks : \E t2 \in Tasks \ {t1} :
      /\ tasks.pc[t1] = "done" /\ tasks.pc[t2] = "done"
      /\ tasks.atArrival[t1] = "expired" /\ tasks.atArrival[t2] = "expired"
      /\ tasks.did[t1] = "refreshed" /\ tasks.did[t2] = "nothing"
      /\ tasks.renewals = 1

\* C22: the resource list holds one descriptor per space of the space
\* listing: when the API reports n accessible spaces the handler returns n
\* descriptors, the i-th with uri gchat://space/{name of the i-th space}.
ResourcesListed == resource.op = "list"
OneResourcePerSpace ==
    ResourcesListed /\ resource.env.api = "ok" =>
        /\ Len(resource.resources) = Len(resource.env.spaces)
        /\ \A i \in 1..Len(resource.resources) :
             resource.resources[i].uri = <<GchatPrefix, SpaceNames[i]>>

\* C23: reading a gchat://space/ resource yields the combined document only
\* when the space and its messages were both retrieved; when either
\* retrieval fails the answer is an error string, not a combined document.
ResourceRead == resource.op = "read" /\ resource.uri[1] = GchatPrefix
CombinedOnlyOnSuccess ==
    ResourceRead =>
        (resource.combined <=>
            IsSet(resource.space.success) /\ IsSet(resource.messages.success))

\* C24: an invocation of a single-entity tool issues at most one chat API
\* request, none when the validation of its arguments fails, and exactly one
\* when the request fails: the failure is the error envelope of that
\* invocation and the request is not issued again.
SingleEntityTools ==
    {"send_message", "list_messages", "get_message", "update_message", "delete_message",
     "list_spaces", "get_space", "create_space", "update_space", "delete_space",
     "list_members", "get_member", "create_membership", "update_membership",
     "delete_membership"}
KeyReading ==
    {"get_message", "update_message", "delete_message", "create_space", "get_member",
     "create_membership", "update_membership", "delete_membership"}
SpaceKeyReading == {"get_space", "update_space", "delete_space"}
ValidationFails(c) ==
    \/ c.name \in SpaceResolving /\ ~Truthy(c.args.space)
          /\ ~Truthy(DefaultSpaceOf(CategoryOf(c.name)))
    \/ c.name \in KeyReading /\ ~c.args.key
    \/ c.name \in SpaceKeyReading /\ ~IsSet(c.args.space)
EntityInvoked == Called /\ lastCall.name \in SingleEntityTools /\ lastCall.executor # None
AtMostOneRequest ==
    EntityInvoked =>
        /\ Cardinality(ApiRequests(lastCall.net)) <= 1
        /\ ValidationFails(lastCall) => ApiRequests(lastCall.net) = {}
        /\ (~lastCall.execRaised /\ ~ValidationFails(lastCall) /\ lastCall.env.api # "ok") =>
              /\ Cardinality(ApiRequests(lastCall.net)) = 1
              /\ IsSet(lastCall.value.error)
              /\ ~IsSet(lastCall.value.success)

AtMostOneRequestWitness ==
    /\ EntityInvoked
    /\ lastCall.name = "delete_message"
    /\ lastCall.env.api = "500"
    /\ Cardinality(ApiRequests(lastCall.net)) = 1
    /\ IsSet(lastCall.value.error)

\* C25: test_connection() never raises; it returns True exactly when
\* ensure_authenticated() succeeds, the service is there and the one-space
\* listing succeeds, and False for an HTTP error, for a missing or failing
\* authentication and for any other failure.
ConnectionTested == holderCall.op = "test_connection"
AuthenticationValid ==
    /\ ensure_authenticated(holderCall.before, holderCall.env).exc = NoExc
    /\ holderCall.after.service
TestConnectionTotal ==
    ConnectionTested =>
        /\ ~holderCall.raised
        /\ holderCall.result \in {Some(TRUE), Some(FALSE)}
        /\ holderCall.result = Some(TRUE) <=>
              (AuthenticationValid /\ holderCall.env.api = "ok")
        /\ holderCall.result = Some(TRUE) => holderCall.net[Len(holderCall.net)] = Probe

TestConnectionWitness ==
    /\ ConnectionTested
    /\ holderCall.result = Some(FALSE)
    /\ AuthenticationValid
    /\ holderCall.env.api = "neterr"

\* C26: in the stdio server the list-tools handler returns, after any
\* sequence of tool invocations, successful or failing, the full catalog of
\* start-up, and handling it changes neither the authentication state nor
\* the categories nor the record of a tool call in progress.
StartupCatalog ==
    get_tools("message") \o get_tools("space") \o get_tools("member") \o get_tools("search")
        \o get_tools("webhook")
ToolsListed == transport = "stdio" /\ listed # <<>>
DiscoveryStable ==
    /\ [](ToolsListed => listed = StartupCatalog)
    /\ [][(transport = "stdio" /\ listed = <<>> /\ listed' # <<>>) =>
            (auth' = auth /\ providers' = providers /\ lastCall' = lastCall)]_vars

DiscoveryStableWitness ==
    /\ ToolsListed
    /\ listed = StartupCatalog
    /\ Called
    /\ lastCall.executor # None
    /\ IsSet(lastCall.value.error)
    /\ auth.expired

\* C27: in every state of the authentication holder, credentials that are
\* set come with a service that is set, so that a get_service() made right
\* after an ensure_authenticated() that returned without raising succeeds,
\* also after an initialize() that failed part-way.
EnsureReturned == holderCall.op = "ensure_authenticated" /\ holderCall.exc = NoExc
CredentialsImplyService ==
    /\ auth.credentials # "none" => auth.service
    /\ EnsureReturned => ~get_service(holderCall.after).raised

\* C28: in each of the five categories the names declared by get_tools(),
\* the names of get_tool_names() and the names that a branch of execute()
\* handles are the same set; every declared name is routed to exactly one
\* category, and the execute() of that category never ends in its
\* "Unknown ... tool" branch for a name the dispatcher routed to it.
ReadyAuth == [credentials |-> "sa", expired |-> FALSE, service |-> TRUE]
UnknownBranch(exc) ==
    /\ exc.cls = "ValueError"
    /\ exc.msg # <<>>
    /\ exc.msg[1] \in {"Unknown message tool: ", "Unknown space tool: ", "Unknown member tool: ",
                        "Unknown search tool: ", "Unknown webhook tool: "}
Branches(cat) ==
    {n \in ToolNames \cup UnknownNames :
        \A r \in {execute(cat, ReadyAuth, n, NoArgs, CalmEnv)} : ~(r.raised /\ UnknownBranch(r.exc))}
\* (the three lists of a category do not change while a call is handled, so
\* they are compared in the states between two calls)
NamesAgree ==
    /\ ~Called =>
         /\ \A c \in Range(Categories) :
              /\ Range(providers[c].tools) = Range(providers[c].names)
              /\ Range(providers[c].names) = Branches(c)
         /\ \A n \in ProviderNames :
              Cardinality({c \in Range(Categories) : n \in Range(providers[c].names)}) = 1
    /\ (Called /\ lastCall.executor # None) =>
         /\ lastCall.name \in Range(providers[Val(lastCall.executor)].names)
         /\ ~(lastCall.execRaised /\ UnknownBranch(lastCall.exc))

NamesAgreeWitness ==
    /\ Called
    /\ lastCall.name = "create_interactive_card"
    /\ lastCall.executor = Some("webhook")
    /\ ~lastCall.execRaised

\* C29: the user identifier that find_direct_message reports is the
\* normalized argument; normalizing is idempotent, and an argument that
\* already starts with users/ (an e-mail address behind it included) is
\* reported as it was given.
UserReported == LookupDone /\ IsSet(lastCall.value.user)
NormalizeIdempotent ==
    UserReported =>
        /\ Val(lastCall.value.user) = FormatUser(lastCall.args.user)
        /\ FormatUser(Val(lastCall.value.user)) = Val(lastCall.value.user)
        /\ StartsWith(lastCall.args.user, UsersPrefix) =>
              Val(lastCall.value.user) = lastCall.args.user

\* C30: in the stateless HTTP server the session manager exists only after
\* initialize_tools() has completed successfully, and never after it has
\* failed; a request that arrives while the manager is unset is answered
\* with status 503 "Service not ready" and is not handed on, so no tool
\* call is dispatched before the tools are initialised.
ServiceGate ==
    transport = "http" =>
        /\ http.manager => (phase = "serving" /\ auth.service)
        /\ phase = "failed" => ~http.manager
        /\ http.handed => http.manager
        /\ (Answering /\ ~http.manager) =>
              (http.status = 503 /\ http.body = <<"Service not ready">> /\ ~http.handed)
        /\ (Called \/ listed # <<>>) => (http.handed /\ phase = "serving")

ServiceGateWitness ==
    /\ transport = "http"
    /\ phase = "failed"
    /\ http.status = 503
    /\ ~http.handed
    /\ ~Called

====
